---- MODULE Spec2Model ----
(***************************************************************************)
(* The reference-data store of Patterns2025_ND: the process-wide           *)
(* repository (Src/reposity_manager.py) and the reference service          *)
(* (Src/Services/reference_service.py) that adds, updates and deletes      *)
(* nomenclature / range / group / storage entities in it.                  *)
(*                                                                         *)
(* Python objects live in a heap (objs) and are named by their address;    *)
(* a collection of the repository is a list of addresses, an embedded      *)
(* reference is an address, a bare-id reference is a unique_code.          *)
(***************************************************************************)
EXTENDS Integers, Sequences, FiniteSets, TLC

VARIABLES objs, data, settings, present, file_name, file, inst, calls, logger

vars == <<objs, data, settings, present, file_name, file, inst, calls, logger>>

\* ------------------------------------------------------------------ bounds
MaxId == 2
MaxName == 2
MaxObjs == 2
MaxHolders == 1

\* Python's None (and every falsy "absent" value read through getattr(.., None)).
None == 0
\* unique_code values a payload may carry, attribute values, heap addresses.
Ids == 1..MaxId
Names == 1..MaxName
Addrs == 1..MaxObjs
\* unique codes of receipts and transactions are uuid4 strings made by their
\* creator: a range disjoint from the ids payloads carry.
HolderCodeBase == 100

\* ------------------------------------------------------- reference-kind text
\* A reference_type is text: a sequence of one-character strings.
S_nomenclature == <<"n", "o", "m", "e", "n", "c", "l", "a", "t", "u", "r", "e">>
S_nomenclature_model == <<"n", "o", "m", "e", "n", "c", "l", "a", "t", "u", "r", "e", "_", "m", "o", "d", "e", "l">>
S_nomenclatures == <<"n", "o", "m", "e", "n", "c", "l", "a", "t", "u", "r", "e", "s">>
S_nomen == <<"n", "o", "m", "e", "n">>
S_range == <<"r", "a", "n", "g", "e">>
S_range_model == <<"r", "a", "n", "g", "e", "_", "m", "o", "d", "e", "l">>
S_unit == <<"u", "n", "i", "t">>
S_units == <<"u", "n", "i", "t", "s">>
S_group == <<"g", "r", "o", "u", "p">>
S_category == <<"c", "a", "t", "e", "g", "o", "r", "y">>
S_group_model == <<"g", "r", "o", "u", "p", "_", "m", "o", "d", "e", "l">>
S_category_model == <<"c", "a", "t", "e", "g", "o", "r", "y", "_", "m", "o", "d", "e", "l">>
S_storage == <<"s", "t", "o", "r", "a", "g", "e">>
S_warehouse == <<"w", "a", "r", "e", "h", "o", "u", "s", "e">>
S_storage_model == <<"s", "t", "o", "r", "a", "g", "e", "_", "m", "o", "d", "e", "l">>
S_warehouse_model == <<"w", "a", "r", "e", "h", "o", "u", "s", "e", "_", "m", "o", "d", "e", "l">>

UpperChars == <<"A", "B", "C", "D", "E", "F", "G", "H", "I", "J", "K", "L", "M",
                "N", "O", "P", "Q", "R", "S", "T", "U", "V", "W", "X", "Y", "Z">>
LowerChars == <<"a", "b", "c", "d", "e", "f", "g", "h", "i", "j", "k", "l", "m",
                "n", "o", "p", "q", "r", "s", "t", "u", "v", "w", "x", "y", "z">>
Whitespace == {" ", "\t", "\n"}

\* str.lower() on one character
LowerChar(c) ==
    IF \E i \in DOMAIN UpperChars : UpperChars[i] = c
    THEN LowerChars[CHOOSE i \in DOMAIN UpperChars : UpperChars[i] = c]
    ELSE c

\* str.strip(): drop the leading and the trailing whitespace
Strip(s) ==
    LET keep == {i \in DOMAIN s : s[i] \notin Whitespace}
    IN  IF keep = {} THEN <<>>
        ELSE LET lo == CHOOSE i \in keep : \A j \in keep : i <= j
                 hi == CHOOSE i \in keep : \A j \in keep : j <= i
             IN  SubSeq(s, lo, hi)

\* reference_service._normalise_type: (reference_type or "").strip().lower()
NormaliseType(reference_type) ==
    LET s == Strip(reference_type)
    IN  [i \in DOMAIN s |-> LowerChar(s[i])]

\* str.startswith
StartsWith(s, p) == Len(p) <= Len(s) /\ SubSeq(s, 1, Len(p)) = p

\* ------------------------------------------------------------ repository keys
range_key == "range_model"
group_key == "group_model"
storage_key == "storage_key"
transaction_key == "transaction_key"
nomenclature_key == "nomenclature_model"
receipt_key == "receipt_model"
rest_key == "rest_key"

\* reposity_manager.keys(): the *_key methods in dir() order
RepoKeys == <<group_key, nomenclature_key, range_key, receipt_key, rest_key,
              storage_key, transaction_key>>
KeySet == {RepoKeys[i] : i \in DOMAIN RepoKeys}
\* the collections that hold the four kinds of reference entities
ModelKeys == {nomenclature_key, range_key, group_key, storage_key}

\* the key returned for an unresolvable kind stands for the raised argument_exception
UnknownKey == "argument_exception"

\* mutant: the synonyms of the unit kind resolve to the group collection
MapTypeToRepoKeyWrongSynonym(reference_type) ==
    LET t == NormaliseType(reference_type)
    IN  IF t \in {S_nomenclature, S_nomenclature_model, S_nomenclatures, S_nomen}
        THEN nomenclature_key
        ELSE IF t \in {S_range, S_range_model}
        THEN range_key
        ELSE IF t \in {S_group, S_category, S_group_model, S_category_model, S_unit, S_units}
        THEN group_key
        ELSE IF t \in {S_storage, S_warehouse, S_storage_model, S_warehouse_model}
        THEN storage_key
        ELSE UnknownKey

\* mutant: a text that is none of the names falls back to the nomenclature collection
MapTypeToRepoKeyDefault(reference_type) ==
    LET t == NormaliseType(reference_type)
    IN  IF t \in {S_range, S_range_model, S_unit, S_units}
        THEN range_key
        ELSE IF t \in {S_group, S_category, S_group_model, S_category_model}
        THEN group_key
        ELSE IF t \in {S_storage, S_warehouse, S_storage_model, S_warehouse_model}
        THEN storage_key
        ELSE nomenclature_key

\* reference_service._map_type_to_repo_key
MapTypeToRepoKey(reference_type) ==
    LET t == NormaliseType(reference_type)
    IN  IF t \in {S_nomenclature, S_nomenclature_model, S_nomenclatures, S_nomen}
        THEN nomenclature_key
        ELSE IF t \in {S_range, S_range_model, S_unit, S_units}
        THEN range_key
        ELSE IF t \in {S_group, S_category, S_group_model, S_category_model}
        THEN group_key
        ELSE IF t \in {S_storage, S_warehouse, S_storage_model, S_warehouse_model}
        THEN storage_key
        ELSE UnknownKey

\* reference_service._all_possible_repo_keys: reposity_manager has receipt_key and
\* transaction_key, so the fallback names are not used; no duplicates arise.
AllPossibleRepoKeys ==
    <<receipt_key, transaction_key,
      "balance_model", "turnover_model", "saved_turnover", "balances", "turnovers">>

\* the keys of AllPossibleRepoKeys that _update_dependencies_on_change selects by
\* substring: "receipt"/"recipe"; "transaction"/"turnover"; "balance"/"turnover"
CascadeReceiptKeys == {receipt_key}
CascadeTransactionKeys == {transaction_key, "turnover_model", "saved_turnover", "turnovers"}
CascadeBalanceKeys == {"balance_model", "turnover_model", "saved_turnover", "balances", "turnovers"}

\* ------------------------------------------------------------------- objects
\* A free heap cell.
NoObj == [cls |-> "free", unique_code |-> None, name |-> None,
          range |-> None, category |-> None]

\* the model class stored under each key
ClassOfKey(key) ==
    CASE key = nomenclature_key -> "nomenclature_model"
      [] key = range_key -> "range_model"
      [] key = group_key -> "group_model"
      [] key = storage_key -> "storage_model"
      [] OTHER -> "free"

\* an element that load has put into a collection is a dict of the parsed document:
\* its content is kept in the fields of the heap cell, it has none of the attributes
IsDict(o, x) == o[x].cls = "dict"

\* getattr(x, "unique_code", None) of an element of the collection under key
UniqueCode(o, key, x) ==
    IF key \in ModelKeys
    THEN IF IsDict(o, x) THEN None ELSE o[x].unique_code
    ELSE x.unique_code

\* getattr(val, "unique_code", None) == item_id for an embedded reference val
RefersTo(o, val, item_id) == val # None /\ o[val].unique_code = item_id

\* next(x for x in data if x.unique_code == item_id): the first match's index, or None
FindFirst(o, d, key, item_id) ==
    LET hits == {i \in DOMAIN d[key] : UniqueCode(o, key, d[key][i]) = item_id}
    IN  IF hits = {} THEN None ELSE CHOOSE i \in hits : \A j \in hits : i <= j

\* [x for x in data if pred(x)], for a set of indices to keep
RECURSIVE KeepIndices(_, _, _)
KeepIndices(s, keep, i) ==
    IF i > Len(s) THEN <<>>
    ELSE (IF i \in keep THEN <<s[i]>> ELSE <<>>) \o KeepIndices(s, keep, i + 1)

\* ------------------------------------------------------------- dependency scan
\* _is_used_elsewhere, one holder: the candidate attributes of holder x (an element
\* of the collection under key) on which item_id is found.  A reference entity
\* carries range and category; a receipt carries the list composition, whose dict
\* elements are matched on "nomenclature_id" and whose other elements on their own
\* unique_code (a composition entry object has none); a transaction-like record
\* carries nomenclature, nomenclature_id, unit and storage.
UsesOf(o, key, x, item_id) ==
    IF key \in ModelKeys
    THEN IF IsDict(o, x) THEN {}
         ELSE {a \in {"range", "category"} : RefersTo(o, o[x][a], item_id)}
    ELSE IF key = receipt_key
    THEN IF \E i \in DOMAIN x.composition :
                /\ x.composition[i].shape = "dict"
                /\ x.composition[i].nomenclature_id = item_id
         THEN {"composition"}
         ELSE {}
    ELSE {a \in {"nomenclature", "unit", "storage"} : RefersTo(o, x[a], item_id)}
         \cup (IF x.nomenclature_id = item_id THEN {"nomenclature_id"} ELSE {})

\* mutant: the scan skips the repository's transaction collection
IsUsedElsewhereSkipsTransactions(o, d, item_id, exclude_repo_key) ==
    UNION {
        UNION { {<<key, i, a>> : a \in UsesOf(o, key, d[key][i], item_id)} :
                i \in DOMAIN d[key] } :
        key \in (DOMAIN d \ {exclude_repo_key, transaction_key}) }

\* reference_service._is_used_elsewhere: the findings <<repo_key, index, attr>>
IsUsedElsewhere(o, d, item_id, exclude_repo_key) ==
    UNION {
        UNION { {<<key, i, a>> : a \in UsesOf(o, key, d[key][i], item_id)} :
                i \in DOMAIN d[key] } :
        key \in (DOMAIN d \ {exclude_repo_key}) }

\* ------------------------------------------------------------ update cascade
\* the receipt loop's body for one composition entry: a dict has no attribute
\* nomenclature / unit / storage, so getattr(item, .., None) is None for it
CascadeEntry(o, item, item_id, updated_obj) ==
    IF item.shape = "dict" THEN item
    ELSE [item EXCEPT
            !.nomenclature = IF RefersTo(o, @, item_id) THEN updated_obj ELSE @,
            !.unit = IF RefersTo(o, @, item_id) THEN updated_obj ELSE @,
            !.storage = IF RefersTo(o, @, item_id) THEN updated_obj ELSE @]

CascadeReceipt(o, r, item_id, updated_obj) ==
    [r EXCEPT !.composition =
        [i \in DOMAIN @ |-> CascadeEntry(o, @[i], item_id, updated_obj)]]

\* mutant: the transaction loop clears the bare id once it has resolved it
CascadeTransactionClearsId(o, t, item_id, updated_obj) ==
    [t EXCEPT
        !.nomenclature = IF RefersTo(o, @, item_id) \/ t.nomenclature_id = item_id
                         THEN updated_obj ELSE @,
        !.nomenclature_id = IF @ = item_id THEN None ELSE @,
        !.unit = IF RefersTo(o, @, item_id) THEN updated_obj ELSE @,
        !.storage = IF RefersTo(o, @, item_id) THEN updated_obj ELSE @]

\* the transaction loop's body for one record
CascadeTransaction(o, t, item_id, updated_obj) ==
    [t EXCEPT
        !.nomenclature = IF RefersTo(o, @, item_id) \/ t.nomenclature_id = item_id
                         THEN updated_obj ELSE @,
        !.nomenclature_id = IF @ = item_id THEN o[updated_obj].unique_code ELSE @,
        !.unit = IF RefersTo(o, @, item_id) THEN updated_obj ELSE @,
        !.storage = IF RefersTo(o, @, item_id) THEN updated_obj ELSE @]

\* the balance / turnover loop's body for one record (the bare id is not rewritten)
CascadeBalance(o, t, item_id, updated_obj) ==
    [t EXCEPT
        !.nomenclature = IF RefersTo(o, @, item_id) \/ t.nomenclature_id = item_id
                         THEN updated_obj ELSE @,
        !.unit = IF RefersTo(o, @, item_id) THEN updated_obj ELSE @,
        !.storage = IF RefersTo(o, @, item_id) THEN updated_obj ELSE @]

\* a receipt or transaction that load took from the parsed document: a dict
IsRaw(x) == "raw" \in DOMAIN x

\* the receipts loop reads getattr(r, "composition", None) or getattr(r,
\* "_composition", None) or getattr(r, "items", None) and iterates the result outside
\* any try: for a dict the value is the bound method dict.items, the for statement
\* raises TypeError and the cascade is left.  The index of the first such receipt.
CascadeStop(d) ==
    LET raws == {i \in DOMAIN d[receipt_key] : IsRaw(d[receipt_key][i])}
    IN  IF raws = {} THEN None ELSE CHOOSE i \in raws : \A j \in raws : i <= j

\* reference_service._update_dependencies_on_change: the three loops, over the keys
\* of AllPossibleRepoKeys the repository holds (data.get(k, []) is empty otherwise);
\* the receipts before the one that makes the loop raise are done, nothing after it
UpdateDependenciesOnChange(o, d, item_id, updated_obj) ==
    [key \in DOMAIN d |->
        IF key \in CascadeReceiptKeys
        THEN [i \in DOMAIN d[key] |->
                IF CascadeStop(d) # None /\ i >= CascadeStop(d) THEN d[key][i]
                ELSE CascadeReceipt(o, d[key][i], item_id, updated_obj)]
        ELSE IF CascadeStop(d) # None THEN d[key]
        ELSE IF key \in CascadeTransactionKeys \cup CascadeBalanceKeys
        THEN [i \in DOMAIN d[key] |->
                LET t1 == IF key \in CascadeTransactionKeys
                          THEN CascadeTransaction(o, d[key][i], item_id, updated_obj)
                          ELSE d[key][i]
                IN  IF key \in CascadeBalanceKeys
                    THEN CascadeBalance(o, t1, item_id, updated_obj)
                    ELSE t1]
        ELSE d[key]]

\* ------------------------------------------------------------ object lifetime
\* the addresses the repository keeps, in the order of data.values(): the elements
\* of an entity list, the references of each holder
RootSeq(d) ==
    LET RECURSIVE OfList(_, _)
        OfList(key, i) ==
            IF i > Len(d[key]) THEN <<>>
            ELSE (IF key \in ModelKeys THEN <<d[key][i]>>
                  ELSE IF key = receipt_key
                  THEN LET RECURSIVE OfComp(_)
                           OfComp(j) ==
                               IF j > Len(d[key][i].composition) THEN <<>>
                               ELSE <<d[key][i].composition[j].nomenclature,
                                      d[key][i].composition[j].unit,
                                      d[key][i].composition[j].storage>> \o OfComp(j + 1)
                       IN  OfComp(1)
                  ELSE <<d[key][i].nomenclature, d[key][i].unit, d[key][i].storage>>)
                 \o OfList(key, i + 1)
        RECURSIVE OfKeys(_)
        OfKeys(k) == IF k > Len(RepoKeys) THEN <<>>
                     ELSE OfList(RepoKeys[k], 1) \o OfKeys(k + 1)
    IN  OfKeys(1)

\* s without None and without repeats, first occurrences kept
RECURSIVE Dedupe(_)
Dedupe(s) ==
    IF s = <<>> THEN <<>>
    ELSE LET front == Dedupe(SubSeq(s, 1, Len(s) - 1))
             x == s[Len(s)]
         IN  IF x = None \/ \E i \in DOMAIN front : front[i] = x
             THEN front ELSE Append(front, x)

\* the objects reachable from the repository: the roots, then what they refer to
RECURSIVE LiveOrder(_, _)
LiveOrder(o, ord) ==
    LET RECURSIVE Refs(_)
        Refs(i) == IF i > Len(ord) THEN <<>>
                   ELSE (IF IsDict(o, ord[i]) THEN <<>>
                         ELSE <<o[ord[i]].range, o[ord[i]].category>>) \o Refs(i + 1)
        n == Dedupe(ord \o Refs(1))
    IN  IF n = ord THEN ord ELSE LiveOrder(o, n)

\* An object that no list and no holder refers to any more is released.  An address
\* is only a name, so the live objects are renumbered in the order LiveOrder meets
\* them: two heaps that differ in the names of their objects are one state.
\* ret is an address the call returns (or None), renamed with the rest.
Collect(o, d, ret) ==
    LET ord == LiveOrder(o, Dedupe(RootSeq(d)))
        New(a) == IF a = None THEN None ELSE CHOOSE i \in DOMAIN ord : ord[i] = a
        NewEntry(e) == [e EXCEPT !.nomenclature = New(@), !.unit = New(@),
                                 !.storage = New(@)]
    IN  [objs |-> [a \in DOMAIN o |->
                     IF a \in DOMAIN ord
                     THEN IF IsDict(o, ord[a]) THEN o[ord[a]]
                          ELSE [o[ord[a]] EXCEPT !.range = New(@), !.category = New(@)]
                     ELSE NoObj],
         data |-> [key \in DOMAIN d |->
                     IF key \in ModelKeys
                     THEN [i \in DOMAIN d[key] |-> New(d[key][i])]
                     ELSE IF key = receipt_key
                     THEN [i \in DOMAIN d[key] |->
                             [d[key][i] EXCEPT !.composition =
                                 [j \in DOMAIN @ |-> NewEntry(@[j])]]]
                     ELSE [i \in DOMAIN d[key] |-> NewEntry(d[key][i])]],
         ret |-> New(ret)]

\* ------------------------------------------------------------ kinds passed
In_Unit == <<" ", "U", "n", "i", "t", " ">>
In_nomenclat == <<"n", "o", "m", "e", "n", "c", "l", "a", "t">>

\* the reference_type texts callers pass
RefTypes == {S_nomenclature, In_Unit, S_group, S_storage, S_category_model, In_nomenclat,
             <<>>}


\* --------------------------------------------------------------- operations
\* What a call hands back: how it ended, the heap and the repository it leaves, the
\* value it returns, its trace (the repository mutation and the events it published,
\* in program order) and the audit record it saved.
NoAudit == [type |-> <<>>, action |-> "none", id |-> None, payload |-> <<>>]

\* mutant: a call that raises has published its event first
RaisedAfterEvent(outcome, o, d) ==
    [outcome |-> outcome, objs |-> o, data |-> d, ret |-> None,
     trace |-> <<"reference_deleted">>, audit |-> NoAudit]

\* a call that raises: nothing was assigned, nothing was published
Raised(outcome, o, d) ==
    [outcome |-> outcome, objs |-> o, data |-> d, ret |-> None, trace |-> <<>>,
     audit |-> NoAudit]

\* add's lookup cache: every unique_code of every collection, in the order of
\* data.values(), a later element replacing an earlier one with the same code
CacheItems(o, d) ==
    LET RECURSIVE Flat(_)
        Flat(k) == IF k > Len(RepoKeys) THEN <<>>
                   ELSE [i \in DOMAIN d[RepoKeys[k]] |->
                            [uid |-> UniqueCode(o, RepoKeys[k], d[RepoKeys[k]][i]),
                             item |-> d[RepoKeys[k]][i]]] \o Flat(k + 1)
    IN  Flat(1)

CacheGet(o, d, uid) ==
    LET c == CacheItems(o, d)
        hits == {i \in DOMAIN c : c[i].uid # None /\ c[i].uid = uid}
    IN  IF hits = {} THEN None
        ELSE c[CHOOSE i \in hits : \A j \in hits : j <= i].item

\* add's dispatch on the normalised type: the model class built, or "unsupported"
AddDispatch(t) ==
    IF StartsWith(t, S_nomen) THEN "nomenclature_model"
    ELSE IF StartsWith(t, S_range) \/ t \in {S_unit, S_units} THEN "range_model"
    ELSE IF StartsWith(t, S_group) \/ t \in {S_category} THEN "group_model"
    ELSE IF StartsWith(t, S_storage) \/ t \in {S_warehouse} THEN "storage_model"
    ELSE "unsupported"

\* _map_type_to_repo_key and add's dispatch, tabulated over the texts callers pass
RepoKeyOf == [reference_type \in RefTypes |-> MapTypeToRepoKey(reference_type)]
ModelClassOf == [reference_type \in RefTypes |-> AddDispatch(NormaliseType(reference_type))]

\* reference_service.get with an item_id: the elements whose unique_code is item_id
Get(o, d, reference_type, item_id) ==
    LET key == RepoKeyOf[reference_type]
    IN  IF key = UnknownKey THEN <<>>
        ELSE KeepIndices(d[key],
                         {i \in DOMAIN d[key] : UniqueCode(o, key, d[key][i]) = item_id}, 1)

\* reference_service.get with an item_id, as a call: it raises for a kind that does
\* not resolve and returns the list found otherwise
GetCall(o, d, reference_type, item_id) ==
    IF RepoKeyOf[reference_type] = UnknownKey THEN Raised("unknown_kind", o, d)
    ELSE [outcome |-> "ok", objs |-> o, data |-> d,
          ret |-> Get(o, d, reference_type, item_id), trace |-> <<>>, audit |-> NoAudit]

\* the dto class validator.validate demands for a model class
DtoClassFor(cls) ==
    CASE cls = "nomenclature_model" -> "nomenclature_dto"
      [] cls = "range_model" -> "range_dto"
      [] cls = "group_model" -> "category_dto"
      [] cls = "storage_model" -> "storage_dto"
      [] OTHER -> "object"

\* <model>.from_dto(dto, cache): the entity takes the payload's id and name; a
\* nomenclature resolves range_id and category_id through the cache
FromDto(o, d, cls, dto) ==
    [cls |-> cls, unique_code |-> dto.id, name |-> dto.name,
     range |-> IF cls = "nomenclature_model" THEN CacheGet(o, d, dto.range_id) ELSE None,
     category |-> IF cls = "nomenclature_model" THEN CacheGet(o, d, dto.category_id)
                  ELSE None]

FreeAddrs(o) == {a \in DOMAIN o : o[a] = NoObj}
NewAddr(o) == CHOOSE a \in FreeAddrs(o) : \A b \in FreeAddrs(o) : a <= b

\* reference_service.add, given the key and the model class its type resolves to
AddBody(o, d, reference_type, key, cls, dto) ==
    IF key = UnknownKey THEN Raised("unknown_kind", o, d)
    ELSE IF cls = "unsupported" THEN Raised("unsupported", o, d)
    ELSE IF dto.cls # DtoClassFor(cls) THEN Raised("validation", o, d)
    ELSE LET a == NewAddr(o)
             model_instance == FromDto(o, d, cls, dto)
             heap == Collect([o EXCEPT ![a] = model_instance],
                             [d EXCEPT ![key] = Append(@, a)], a)
         IN  [outcome |-> "ok",
              objs |-> heap.objs,
              data |-> heap.data,
              ret |-> heap.ret,
              trace |-> <<"append", "reference_added">>,
              audit |-> [type |-> reference_type, action |-> "add",
                         id |-> model_instance.unique_code, payload |-> <<>>]]

\* reference_service.add
AddCall(o, d, reference_type, dto) ==
    AddBody(o, d, reference_type, RepoKeyOf[reference_type],
            ModelClassOf[reference_type], dto)

\* hasattr(target, k) for a reference entity
HasAttr(e, k) == e.cls # "dict" /\ k \in (DOMAIN e \ {"cls"})

\* setattr(target, k, v): unique_code is fixed at creation, its assignment raises
\* and update's except clause skips it
SetAttr(e, k, v) ==
    IF k = "unique_code" THEN e ELSE [e EXCEPT ![k] = v]

\* mutant: a field that is set accumulates instead of being replaced
ApplyFieldAccumulates(e, k, v) ==
    IF HasAttr(e, k) /\ k # "unique_code"
    THEN [e EXCEPT ![k] = ((@ + v) % MaxName) + 1]
    ELSE e

\* mutant: update assigns whatever attribute the payload names, unique_code included
ApplyFieldAssignsCode(e, k, v) ==
    IF HasAttr(e, k) THEN [e EXCEPT ![k] = v] ELSE e

\* mutant: a name the target does not have is assigned as a new attribute
ApplyFieldSetsUnknown(e, k, v) ==
    IF e.cls = "dict" \/ k = "unique_code" THEN e
    ELSE [x \in DOMAIN e \cup {k} |-> IF x = k THEN v ELSE e[x]]

\* the body of update's loop over partial_payload: no entity has a set_<k> method
ApplyField(e, k, v) ==
    IF HasAttr(e, k) THEN SetAttr(e, k, v) ELSE e

RECURSIVE ApplyFields(_, _, _)
ApplyFields(e, partial_payload, ks) ==
    IF ks = {} THEN e
    ELSE LET k == CHOOSE x \in ks : TRUE
         IN  ApplyFields(ApplyField(e, k, partial_payload[k]), partial_payload, ks \ {k})

\* mutant: the target is taken from whichever collection holds the id
FindTargetAnywhere(o, d, key, item_id) ==
    LET ks == {k \in ModelKeys : FindFirst(o, d, k, item_id) # None}
    IN  IF FindFirst(o, d, key, item_id) # None
        THEN [key |-> key, index |-> FindFirst(o, d, key, item_id)]
        ELSE IF ks = {} THEN [key |-> key, index |-> None]
        ELSE LET k == CHOOSE x \in ks : TRUE
             IN  [key |-> k, index |-> FindFirst(o, d, k, item_id)]

\* update's and delete's lookup of the target in the collection of the kind
FindTarget(o, d, key, item_id) ==
    [key |-> key, index |-> FindFirst(o, d, key, item_id)]

\* reference_service.update, given the key its type resolves to
UpdateBody(o, d, reference_type, key, item_id, partial_payload) ==
    IF key = UnknownKey THEN Raised("unknown_kind", o, d)
    ELSE LET found == FindTarget(o, d, key, item_id)
         IN  IF found.index = None THEN Raised("not_found", o, d)
             ELSE LET target == d[found.key][found.index]
                      o2 == [o EXCEPT ![target] =
                                ApplyFields(@, partial_payload, DOMAIN partial_payload)]
                      d2 == UpdateDependenciesOnChange(o2, d, item_id, target)
                      heap == Collect(o2, d2, target)
                  IN  [outcome |-> "ok",
                       objs |-> heap.objs,
                       data |-> heap.data,
                       ret |-> heap.ret,
                       trace |-> <<"setattr", "cascade", "reference_updated">>,
                       audit |-> [type |-> reference_type, action |-> "update",
                                  id |-> item_id, payload |-> partial_payload]]

\* reference_service.update
UpdateCall(o, d, reference_type, item_id, partial_payload) ==
    UpdateBody(o, d, reference_type, RepoKeyOf[reference_type], item_id,
               partial_payload)

\* reference_service.delete, given the key its type resolves to
DeleteBody(o, d, reference_type, key, item_id) ==
    IF key = UnknownKey THEN Raised("unknown_kind", o, d)
    ELSE LET found == FindTarget(o, d, key, item_id)
         IN  IF found.index = None THEN Raised("not_found", o, d)
             ELSE IF IsUsedElsewhere(o, d, item_id, found.key) # {}
             THEN Raised("in_use", o, d)
             ELSE LET d2 == [d EXCEPT ![found.key] =
                                KeepIndices(@, {i \in DOMAIN @ :
                                    UniqueCode(o, found.key, @[i]) # item_id}, 1)]
                      heap == Collect(o, d2, None)
                  IN  [outcome |-> "ok",
                       objs |-> heap.objs,
                       data |-> heap.data,
                       ret |-> None,
                       trace |-> <<"remove", "reference_deleted">>,
                       audit |-> [type |-> reference_type, action |-> "delete",
                                  id |-> item_id, payload |-> <<>>]]

\* reference_service.delete
DeleteCall(o, d, reference_type, item_id) ==
    DeleteBody(o, d, reference_type, RepoKeyOf[reference_type], item_id)

\* ---------------------------------------------------------------- recompute
\* rest_service().calc(): the rests are derived anew from the transactions, one per
\* transaction, naming its nomenclature by id; a run that fails has assigned nothing
Rests(d) ==
    [i \in DOMAIN d[transaction_key] |->
        [unique_code |-> None, nomenclature_id |-> d[transaction_key][i].nomenclature_id,
         nomenclature |-> None, unit |-> None, storage |-> None]]

Calc(d, calc_fails) ==
    [raised |-> calc_fails,
     data |-> IF calc_fails THEN d ELSE [d EXCEPT ![rest_key] = Rests(d)]]

\* mutant: a failure of the recompute fails the update and undoes it
RecomputedOrFailed(o, d, res, calc_fails) ==
    IF res.outcome # "ok" THEN res
    ELSE IF Calc(res.data, calc_fails).raised THEN Raised("calc_failed", o, d)
    ELSE [res EXCEPT !.data = Calc(res.data, calc_fails).data]

\* update's try: rest_service().calc() except Exception: pass, after the cascade
Recomputed(o, d, res, calc_fails) ==
    IF res.outcome # "ok" THEN res
    ELSE [res EXCEPT !.data = Calc(res.data, calc_fails).data]

\* reference_service.update with a recompute that fails or does not
UpdateWithCalc(o, d, reference_type, item_id, partial_payload, calc_fails) ==
    Recomputed(o, d, UpdateCall(o, d, reference_type, item_id, partial_payload), calc_fails)

\* reference_service.handle: lock_date_changed runs the recompute inside try/except
\* pass; any other event is ignored
HandleCall(d, event, calc_fails) ==
    IF event = "lock_date_changed"
    THEN [outcome |-> "returned", data |-> Calc(d, calc_fails).data]
    ELSE [outcome |-> "returned", data |-> d]

\* -------------------------------------------------------------- persistence
\* common.models_to_dto and convert_factory.serialize for one element: the entity's
\* fields with its references as ids; a dict is written as it is
ToDto(o, a) ==
    IF IsDict(o, a)
    THEN [id |-> o[a].unique_code, name |-> o[a].name,
          range_id |-> o[a].range, category_id |-> o[a].category]
    ELSE [id |-> o[a].unique_code, name |-> o[a].name,
          range_id |-> IF o[a].range = None THEN None ELSE o[o[a].range].unique_code,
          category_id |-> IF o[a].category = None THEN None
                          ELSE o[o[a].category].unique_code]

\* the same for a receipt or a transaction: its code and the ids it names
HolderDto(key, x) ==
    IF key = receipt_key
    THEN [id |-> x.unique_code,
          composition |-> [j \in DOMAIN x.composition |-> x.composition[j].nomenclature_id]]
    ELSE [id |-> x.unique_code, nomenclature_id |-> x.nomenclature_id]

\* reposity_manager.save: the document written, an entry for every key of keys()
SaveDoc(o, d) ==
    [key \in KeySet |->
        IF key \in ModelKeys
        THEN [i \in DOMAIN d[key] |-> ToDto(o, d[key][i])]
        ELSE [i \in DOMAIN d[key] |-> HolderDto(key, d[key][i])]]

\* the backing file: missing, not JSON, a JSON array, or a JSON object
NoDoc == [key \in {} |-> <<>>]
NoFile == [kind |-> "missing", doc |-> NoDoc]
NoPath == ""
Path == "data.json"

\* mutant: save writes the collections that hold something only
SaveCallSkipsEmpty(o, d, fname, f, write_fails) ==
    IF fname = NoPath THEN [outcome |-> "config_error", file |-> f, ret |-> "raised"]
    ELSE IF write_fails THEN [outcome |-> "write_failed", file |-> f, ret |-> "False"]
    ELSE [outcome |-> "ok",
          file |-> [kind |-> "object",
                    doc |-> [key \in {k \in KeySet : d[k] # <<>>} |-> SaveDoc(o, d)[key]]],
          ret |-> "True"]

\* reposity_manager.save
SaveCall(o, d, fname, f, write_fails) ==
    IF fname = NoPath THEN [outcome |-> "config_error", file |-> f, ret |-> "raised"]
    ELSE IF write_fails THEN [outcome |-> "write_failed", file |-> f, ret |-> "False"]
    ELSE [outcome |-> "ok", file |-> [kind |-> "object", doc |-> SaveDoc(o, d)],
          ret |-> "True"]

\* raw_data.get(key, [])
DocGet(doc, key) == IF key \in DOMAIN doc THEN doc[key] ELSE <<>>

\* the heap cell of a dict that json.loads built for an entity
LoadedObj(e) ==
    [cls |-> "dict", unique_code |-> e.id, name |-> e.name,
     range |-> e.range_id, category |-> e.category_id]

\* a dict that json.loads built for a receipt or a transaction: no attribute of a
\* holder can be read from it
LoadedHolder(e) ==
    [unique_code |-> None, composition |-> <<>>, nomenclature_id |-> None,
     nomenclature |-> None, unit |-> None, storage |-> None, raw |-> e]

\* the number of entity dicts of doc under the keys that precede RepoKeys[k]
RECURSIVE DocOffset(_, _)
DocOffset(doc, k) ==
    IF k = 1 THEN 0
    ELSE DocOffset(doc, k - 1)
         + (IF RepoKeys[k - 1] \in ModelKeys THEN Len(DocGet(doc, RepoKeys[k - 1])) ELSE 0)

KeyIndex(key) == CHOOSE k \in DOMAIN RepoKeys : RepoKeys[k] = key

\* mutant: initalize leaves the lists that exist as they are
InitalizeKeepsLists(o, d, p) ==
    [objs |-> o, data |-> d, present |-> p \cup KeySet]

\* reposity_manager.initalize
InitalizeCall(o, d, p) ==
    [objs |-> [a \in DOMAIN o |-> NoObj],
     data |-> [key \in DOMAIN d |-> IF key \in KeySet THEN <<>> ELSE d[key]],
     present |-> p \cup KeySet]

\* mutant: load assigns the keys the document has and no others
LoadDocumentDocKeysOnly(o, d, p, doc) ==
    [objs |-> [a \in DOMAIN o |-> NoObj],
     data |-> [key \in DOMAIN d |-> <<>>],
     present |-> p \cup DOMAIN doc]

\* load's loop over keys(): data[key] = raw_data.get(key, []), the elements being the
\* dicts of the parsed document
LoadDocument(o, d, p, doc) ==
    [objs |-> [a \in DOMAIN o |->
                LET hits == {key \in ModelKeys :
                                /\ a > DocOffset(doc, KeyIndex(key))
                                /\ a <= DocOffset(doc, KeyIndex(key)) + Len(DocGet(doc, key))}
                IN  IF hits = {} THEN NoObj
                    ELSE LET key == CHOOSE k \in hits : TRUE
                         IN  LoadedObj(DocGet(doc, key)[a - DocOffset(doc, KeyIndex(key))])],
     data |-> [key \in DOMAIN d |->
                IF key \in ModelKeys
                THEN [i \in DOMAIN DocGet(doc, key) |-> DocOffset(doc, KeyIndex(key)) + i]
                ELSE IF key \in KeySet
                THEN [i \in DOMAIN DocGet(doc, key) |-> LoadedHolder(DocGet(doc, key)[i])]
                ELSE d[key]],
     present |-> p \cup KeySet]

\* the result of load: what it raised or returned, and the repository it leaves
Loaded(outcome, ret, rep) ==
    [outcome |-> outcome, ret |-> ret, objs |-> rep.objs, data |-> rep.data,
     present |-> rep.present]

\* mutant: load empties the collections before it reads the file
LoadCallClearsFirst(o, d, p, fname, f) ==
    LET same == InitalizeCall(o, d, p)
    IN  IF fname = NoPath THEN Loaded("config_error", "raised", same)
        ELSE IF f.kind = "missing"
        THEN Loaded("not_loaded", "False", InitalizeCall(o, d, p))
        ELSE IF f.kind = "malformed" THEN Loaded("format_error", "raised", same)
        ELSE IF f.kind = "array" THEN Loaded("attribute_error", "raised", same)
        ELSE Loaded("ok", "True", LoadDocument(o, d, p, f.doc))

\* reposity_manager.load
LoadCall(o, d, p, fname, f) ==
    LET same == [objs |-> o, data |-> d, present |-> p]
    IN  IF fname = NoPath THEN Loaded("config_error", "raised", same)
        ELSE IF f.kind = "missing"
        THEN Loaded("not_loaded", "False", InitalizeCall(o, d, p))
        ELSE IF f.kind = "malformed" THEN Loaded("format_error", "raised", same)
        ELSE IF f.kind = "array" THEN Loaded("attribute_error", "raised", same)
        ELSE Loaded("ok", "True", LoadDocument(o, d, p, f.doc))

\* ------------------------------------------------------------------- inputs
DtoClasses == {"nomenclature_dto", "range_dto", "category_dto", "storage_dto"}

\* the payloads of add: a new entity is named 1; a nomenclature payload names a
\* range, a category or neither
Dtos ==
    [cls : {"nomenclature_dto"}, id : Ids, name : {1},
     range_id : Ids \cup {None}, category_id : {None}]
    \cup [cls : {"nomenclature_dto"}, id : Ids, name : {1},
          range_id : {None}, category_id : Ids]
    \cup [cls : DtoClasses \ {"nomenclature_dto"}, id : Ids, name : {1},
          range_id : {None}, category_id : {None}]

\* the field mappings of update
Payloads ==
    [name : Names]
    \cup {[name |-> MaxName, bogus |-> 1]}
    \cup {[unique_code |-> MaxId]}

\* the composition entries and transaction records whose references all resolve
AddrsOf(d, key) == {d[key][i] : i \in DOMAIN d[key]}

Entries(o, d) ==
    UNION {
        [shape : {"dict"}, nomenclature_id : {o[n].unique_code},
         nomenclature : {None}, unit : {None}, storage : {None}]
        \cup
        [shape : {"obj"}, nomenclature_id : {o[n].unique_code},
         nomenclature : {None, n},
         unit : {None} \cup AddrsOf(d, range_key),
         storage : {None}] :
        n \in AddrsOf(d, nomenclature_key)}

Transactions(o, d) ==
    UNION {
        [nomenclature_id : {o[n].unique_code},
         nomenclature : {None, n},
         unit : {None},
         storage : {None} \cup AddrsOf(d, storage_key)] :
        n \in AddrsOf(d, nomenclature_key)}

HolderCount(d) == Len(d[receipt_key]) + Len(d[transaction_key])

\* ------------------------------------------------------- logging service
\* event names and level names, as text
E_log == <<"l", "o", "g">>
E_Log == <<"L", "o", "g">>
E_LOG_DEBUG == <<"L", "O", "G", "_", "D", "E", "B", "U", "G">>
E_LOG_INFO == <<"L", "O", "G", "_", "I", "N", "F", "O">>
E_LOG_ERROR == <<"L", "O", "G", "_", "E", "R", "R", "O", "R">>
E_LOG_debug == <<"L", "O", "G", "_", "d", "e", "b", "u", "g">>
E_LOG_TRACE == <<"L", "O", "G", "_", "T", "R", "A", "C", "E">>
E_change_block_period == <<"c", "h", "a", "n", "g", "e", "_", "b", "l", "o", "c", "k", "_", "p", "e", "r", "i", "o", "d">>
T_LOG_ == <<"L", "O", "G", "_">>
T_DEBUG == <<"D", "E", "B", "U", "G">>
T_debug == <<"d", "e", "b", "u", "g">>
T_INFO == <<"I", "N", "F", "O">>
T_ERROR == <<"E", "R", "R", "O", "R">>
T_Error == <<"E", "r", "r", "o", "r">>
T_TRACE == <<"T", "R", "A", "C", "E">>

\* str.upper() on one character
UpperChar(c) ==
    IF \E i \in DOMAIN LowerChars : LowerChars[i] = c
    THEN UpperChars[CHOOSE i \in DOMAIN LowerChars : LowerChars[i] = c]
    ELSE c

\* str.upper()
Upper(s) == [i \in DOMAIN s |-> UpperChar(s[i])]

\* s.replace(p, ''): every occurrence of p is dropped, scanning from the left
RECURSIVE RemoveAll(_, _)
RemoveAll(s, p) ==
    IF Len(s) < Len(p) THEN s
    ELSE IF StartsWith(s, p) THEN RemoveAll(SubSeq(s, Len(p) + 1, Len(s)), p)
    ELSE <<Head(s)>> \o RemoveAll(Tail(s), p)

\* the levels of Src.Core.log_levels, in increasing order of severity
LevelNames == {T_DEBUG, T_INFO, T_ERROR}
LevelNumber(name) ==
    CASE name = T_DEBUG -> 1
      [] name = T_INFO -> 2
      [] name = T_ERROR -> 3

\* getattr(log_levels, name, log_levels.INFO)
GetLevel(name) == IF name \in LevelNames THEN LevelNumber(name) ELSE LevelNumber(T_INFO)

\* the service after construction with no logging section in the settings: minimum
\* level INFO, nothing written
NoLogger == [level |-> LevelNumber(T_INFO), lines |-> <<>>]

\* the event names handle is given
LogEventNames ==
    {E_log, E_Log, E_LOG_DEBUG, E_LOG_INFO, E_LOG_ERROR, E_LOG_debug, E_LOG_TRACE,
     E_change_block_period}

\* the level names a payload or the settings may carry
LevelTexts == {T_DEBUG, T_debug, T_INFO, T_ERROR, T_Error, T_TRACE}

\* params: a dict with a message and possibly a level, or a plain string
LogParams == [is_dict : BOOLEAN, has_level : BOOLEAN, level : LevelTexts, message : Names]

\* mutant: an event at the minimum level is dropped as well
BelowOrAtMinimum(lvl_num, level) == lvl_num <= level

\* if lvl_num < self.level: return
BelowMinimum(lvl_num, level) == lvl_num < level

\* logging_service._write: one line is appended to the sink
Write(lg, level, message) ==
    [lg EXCEPT !.lines = Append(@, [level |-> level, message |-> message])]

\* the level name handle works out for a 'LOG_<LEVEL>' or a 'log' event
EventLevel(event, params) ==
    IF StartsWith(event, T_LOG_) THEN Upper(RemoveAll(event, T_LOG_))
    ELSE IF params.is_dict
    THEN Upper(IF params.has_level THEN params.level ELSE T_INFO)
    ELSE T_INFO

\* logging_service.handle
LoggingHandle(lg, event, params) ==
    IF ~(StartsWith(event, T_LOG_) \/ event = E_log) THEN lg
    ELSE LET level == EventLevel(event, params)
             lvl_num == GetLevel(level)
         IN  IF BelowMinimum(lvl_num, lg.level) THEN lg
             ELSE Write(lg, level, params.message)

\* logging_service.reload_settings: the minimum level named by the settings, INFO
\* when the name is absent or unknown
ReloadedLevel(has_min_level, min_level) ==
    IF has_min_level THEN GetLevel(Upper(min_level)) ELSE LevelNumber(T_INFO)

MaxLines == 3

\* ---------------------------------------------------- instances and callers
\* the reposity_manager instances: the one reference_service keeps in its class
\* attribute __repo, and those other code constructs with reposity_manager()
MaxRepos == 2
Repos == 1..MaxRepos
ServiceRepo == 1

\* what an instance carries of its own: a mapping bound to the instance (no statement
\* binds one: __data is assigned in the class body only) and the number of holders
\* that were appended through the instance
NoInst == [r \in Repos |-> [data |-> [key \in KeySet |-> <<>>], appended |-> 0]]

\* the callers of the service that are inside a call (none), how the last run of the
\* recompute collaborator ended (it has not run) and how the last write of the audit
\* record ended (there was none); the history kept of the calls made by concurrent
\* callers: the entities add has appended, those delete has dropped, and whether a
\* caller ever took a step while another was inside its call
NoCalls == [add |-> [pc |-> "idle"], del |-> [pc |-> "idle"], recompute |-> "none",
            audit_write |-> "none", appended |-> {}, dropped |-> {},
            overlapped |-> FALSE]

\* -------------------------------------------------------------------- state
\* the service's repository after reposity_manager.initalize: every key of the closed
\* set holds an empty list; no path is configured, no file written
Init ==
    /\ objs = [a \in Addrs |-> NoObj]
    /\ data = [key \in KeySet |-> <<>>]
    /\ settings = NoAudit
    /\ present = KeySet
    /\ file_name = NoPath
    /\ file = NoFile
    /\ inst = NoInst
    /\ calls = NoCalls
    /\ logger = NoLogger

\* mutant: a subscriber's failure undoes what the call did
PostCommitRollsBack(o, d, res, fails) ==
    IF res.outcome = "ok" /\ fails THEN Raised("handler_failed", o, d) ELSE res

\* observe_service.create_event as the last statement of add, update and delete, with
\* a subscriber that signals failure (fails) or not: the lists and the audit record
\* were assigned before it and no statement after it restores them
PostCommit(o, d, res, fails) ==
    IF res.outcome = "ok" /\ fails
    THEN [res EXCEPT !.trace = Append(@, "handler_failed")]
    ELSE res

\* a call's effect on the state; a call that raised leaves the audit record alone
Effect(res) ==
    /\ objs' = res.objs
    /\ data' = res.data
    /\ settings' = IF res.outcome = "ok" THEN res.audit ELSE settings

\* a call made while a subscriber of its event signals failure, or does not
Published(res) ==
    \E fails \in BOOLEAN : Effect(PostCommit(objs, data, res, fails))

\* add has created the list of its key if the mapping had none
AddEffect(res, key) ==
    /\ Published(res)
    /\ present' = IF res.outcome = "ok" THEN present \cup {key} ELSE present
    /\ UNCHANGED <<file_name, file, inst, calls, logger>>

AddWith(types, dtos) ==
    \E reference_type \in types, dto \in dtos :
        /\ FreeAddrs(objs) # {}
        /\ AddEffect(AddCall(objs, data, reference_type, dto), RepoKeyOf[reference_type])

Add == AddWith(RefTypes, Dtos)

Update ==
    \E reference_type \in RefTypes, item_id \in Ids, partial_payload \in Payloads :
        /\ Published(UpdateCall(objs, data, reference_type, item_id, partial_payload))
        /\ UNCHANGED <<present, file_name, file, inst, calls, logger>>

Delete ==
    \E reference_type \in RefTypes, item_id \in Ids :
        /\ Published(DeleteCall(objs, data, reference_type, item_id))
        /\ UNCHANGED <<present, file_name, file, inst, calls, logger>>

\* a receipt built elsewhere is appended to the repository's receipt list
AppendReceipt ==
    \E entry \in Entries(objs, data) :
        /\ HolderCount(data) < MaxHolders
        /\ data' = [data EXCEPT ![receipt_key] =
                        Append(@, [unique_code |-> HolderCodeBase + HolderCount(data),
                                   composition |-> <<entry>>])]
        /\ present' = present \cup {receipt_key}
        /\ UNCHANGED <<objs, settings, file_name, file, inst, calls, logger>>

\* a transaction built elsewhere is appended to the repository's transaction list
AppendTransaction ==
    \E t \in Transactions(objs, data) :
        /\ HolderCount(data) < MaxHolders
        /\ data' = [data EXCEPT ![transaction_key] =
                        Append(@, [unique_code |-> HolderCodeBase + HolderCount(data)]
                                  @@ t)]
        /\ present' = present \cup {transaction_key}
        /\ UNCHANGED <<objs, settings, file_name, file, inst, calls, logger>>

Next == Add \/ Update \/ Delete \/ AppendReceipt \/ AppendTransaction

Spec == Init /\ [][Next]_vars

\* ------------------------------------------------- the repository's lifecycle
\* reposity_manager as constructed: the mapping has no key
InitPersist ==
    /\ objs = [a \in Addrs |-> NoObj]
    /\ data = [key \in KeySet |-> <<>>]
    /\ settings = NoAudit
    /\ present = {}
    /\ file_name = NoPath
    /\ file = NoFile
    /\ inst = NoInst
    /\ calls = NoCalls
    /\ logger = NoLogger

\* the kinds and payloads of the entities added before a save
PersistTypes == {S_nomenclature, In_Unit}
PersistDtos == {dto \in Dtos : dto.cls \in {"nomenclature_dto", "range_dto"}
                               /\ dto.category_id = None}

AddEntity == AddWith(PersistTypes, PersistDtos)

\* file_name is assigned
Configure ==
    /\ file_name = NoPath
    /\ file_name' = Path
    /\ UNCHANGED <<objs, data, settings, present, file, inst, calls, logger>>

Initalize ==
    LET rep == InitalizeCall(objs, data, present)
    IN  /\ objs' = rep.objs
        /\ data' = rep.data
        /\ present' = rep.present
        /\ UNCHANGED <<settings, file_name, file, inst, calls, logger>>

Save ==
    \E write_fails \in BOOLEAN :
        /\ file' = SaveCall(objs, data, file_name, file, write_fails).file
        /\ UNCHANGED <<objs, data, settings, present, file_name, inst, calls, logger>>

Load ==
    LET res == LoadCall(objs, data, present, file_name, file)
    IN  /\ objs' = res.objs
        /\ data' = res.data
        /\ present' = res.present
        /\ UNCHANGED <<settings, file_name, file, inst, calls, logger>>

\* the file is removed
FileLost ==
    /\ file.kind # "missing"
    /\ file' = NoFile
    /\ UNCHANGED <<objs, data, settings, present, file_name, inst, calls, logger>>

\* the file is overwritten with text that is no JSON, or with a JSON array
FileCorrupted ==
    \E kind \in {"malformed", "array"} :
        /\ file.kind # kind
        /\ file' = [kind |-> kind, doc |-> NoDoc]
        /\ UNCHANGED <<objs, data, settings, present, file_name, inst, calls, logger>>

\* the file is replaced by a document that lacks one of the keys
FileTruncated ==
    \E key \in KeySet :
        /\ file.kind = "object"
        /\ DOMAIN file.doc = KeySet
        /\ file' = [file EXCEPT !.doc = [k \in KeySet \ {key} |-> file.doc[k]]]
        /\ UNCHANGED <<objs, data, settings, present, file_name, inst, calls, logger>>

NextPersist ==
    \/ AddEntity \/ Configure \/ Initalize \/ Save \/ Load
    \/ FileLost \/ FileCorrupted \/ FileTruncated

SpecPersist == InitPersist /\ [][NextPersist]_vars

\* ------------------------------------------------------- the audit record
\* reference_service._save_settings: the record is handed to settings_manager and
\* written to appsettings.json; every exception on the way is swallowed, so when the
\* store cannot be written the record stays what it was
SaveSettings(current, payload, store_fails) ==
    IF store_fails THEN current ELSE payload

\* mutant: the audit record is written whether or not the call succeeded
AuditOfAnyCall(current, res, store_fails) ==
    SaveSettings(current, res.audit, store_fails)

\* last_reference_change after a call: add, update and delete reach _save_settings
\* only after the mutation, a call that raised never gets there
AuditOf(current, res, store_fails) ==
    IF res.outcome = "ok" THEN SaveSettings(current, res.audit, store_fails)
    ELSE current

\* the effect of a call whose write of the audit record fails or does not
AuditedEffect(res, store_fails) ==
    /\ objs' = res.objs
    /\ data' = res.data
    /\ settings' = AuditOf(settings, res, store_fails)
    /\ calls' = IF res.outcome = "ok"
                THEN [calls EXCEPT !.audit_write =
                        IF store_fails THEN "failed" ELSE "written"]
                ELSE calls
    /\ UNCHANGED <<present, file_name, file, inst, logger>>

AuditTypes == {S_nomenclature, In_Unit, <<>>}

AuditedAdd ==
    \E reference_type \in AuditTypes, dto \in PersistDtos, store_fails \in BOOLEAN :
        /\ FreeAddrs(objs) # {}
        /\ AuditedEffect(AddCall(objs, data, reference_type, dto), store_fails)

AuditedUpdate ==
    \E reference_type \in AuditTypes, item_id \in Ids, name \in Names,
       store_fails \in BOOLEAN :
        AuditedEffect(UpdateCall(objs, data, reference_type, item_id, [name |-> name]),
                      store_fails)

AuditedDelete ==
    \E reference_type \in AuditTypes, item_id \in Ids, store_fails \in BOOLEAN :
        AuditedEffect(DeleteCall(objs, data, reference_type, item_id), store_fails)

NextAudit == AuditedAdd \/ AuditedUpdate \/ AuditedDelete

SpecAudit == Init /\ [][NextAudit]_vars

\* ------------------------------------------- the cascade after a load
\* a file written elsewhere is put at the configured path: a document that holds
\* one receipt naming a nomenclature by its id
ReceiptDoc ==
    [key \in KeySet |->
        IF key = receipt_key
        THEN <<[id |-> HolderCodeBase, composition |-> <<1>>]>>
        ELSE <<>>]

FileProvided ==
    /\ file.kind # "object"
    /\ file' = [kind |-> "object", doc |-> ReceiptDoc]
    /\ UNCHANGED <<objs, data, settings, present, file_name, inst, calls, logger>>

\* a transaction built elsewhere is appended beside whatever load has put there
AppendTransactionBeside ==
    \E t \in Transactions(objs, data) :
        /\ Len(data[transaction_key]) < MaxHolders
        /\ data' = [data EXCEPT ![transaction_key] =
                        Append(@, [unique_code |-> HolderCodeBase + HolderCount(data)]
                                  @@ t)]
        /\ present' = present \cup {transaction_key}
        /\ UNCHANGED <<objs, settings, file_name, file, inst, calls, logger>>

NextCascade ==
    \/ AddEntity \/ Update \/ AppendTransactionBeside
    \/ Configure \/ FileProvided \/ Load

SpecCascade == InitPersist /\ [][NextCascade]_vars

\* --------------------------------------------- one store behind every instance
\* the mapping the class body binds to reposity_manager.__data
ClassData == 0

\* mutant: every instance has a mapping of its own
DataRefOwn(r) == r

\* self.__data of instance r: the name is looked up on the instance and then on the
\* class; no statement assigns it on an instance, so it is the class's mapping
DataRef(r) == ClassData

\* reposity_manager.data of instance r
DataOf(r) == IF DataRef(r) = ClassData THEN data ELSE inst[r].data

\* the instances of reference_service, and the repository each one uses: __repo is
\* a class attribute, bound once to one reposity_manager()
MaxServices == 2
Services == 1..MaxServices
RepoOf(s) == ServiceRepo

\* the mapping of instance r becomes d2 after n holders were appended through r
WriteTo(r, d2, n) ==
    IF DataRef(r) = ClassData
    THEN /\ data' = d2
         /\ inst' = [inst EXCEPT ![r].appended = @ + n]
    ELSE /\ data' = data
         /\ inst' = [inst EXCEPT ![r] = [data |-> d2, appended |-> @.appended + n]]

\* the effect of a call made on service instance s
ServiceEffect(s, res) ==
    /\ objs' = res.objs
    /\ WriteTo(RepoOf(s), res.data, 0)
    /\ settings' = IF res.outcome = "ok" THEN res.audit ELSE settings
    /\ UNCHANGED <<file_name, file, calls, logger>>

SharedAdd ==
    \E s \in Services, reference_type \in PersistTypes, dto \in PersistDtos :
        /\ FreeAddrs(objs) # {}
        /\ ServiceEffect(s, AddCall(objs, DataOf(RepoOf(s)), reference_type, dto))
        /\ present' = present \cup {RepoKeyOf[reference_type]}

\* the effect of an update on service instance s whose recompute failed or did not
UpdateEffect(s, res, calc_fails) ==
    /\ objs' = res.objs
    /\ WriteTo(RepoOf(s), res.data, 0)
    /\ settings' = IF res.outcome = "ok" THEN res.audit ELSE settings
    /\ calls' = IF res.outcome = "ok"
                THEN [calls EXCEPT !.recompute = IF calc_fails THEN "failed" ELSE "done"]
                ELSE calls
    /\ UNCHANGED <<present, file_name, file, logger>>

SharedUpdate ==
    \E s \in Services, reference_type \in PersistTypes, item_id \in Ids, name \in Names,
       calc_fails \in BOOLEAN :
        UpdateEffect(s, UpdateWithCalc(objs, DataOf(RepoOf(s)), reference_type, item_id,
                                       [name |-> name], calc_fails), calc_fails)

\* observe_service.create_event("lock_date_changed", ..) reaches a service instance
LockDateChanged ==
    \E s \in Services, calc_fails \in BOOLEAN :
        LET res == HandleCall(DataOf(RepoOf(s)), "lock_date_changed", calc_fails)
        IN  /\ WriteTo(RepoOf(s), res.data, 0)
            /\ calls' = [calls EXCEPT !.recompute =
                            IF calc_fails THEN "failed" ELSE "done"]
            /\ UNCHANGED <<objs, settings, present, file_name, file, logger>>

SharedDelete ==
    \E s \in Services, reference_type \in PersistTypes, item_id \in Ids :
        /\ ServiceEffect(s, DeleteCall(objs, DataOf(RepoOf(s)), reference_type, item_id))
        /\ UNCHANGED present

\* repo = reposity_manager(); repo.data.setdefault("receipt_model", []).append(receipt)
AppendReceiptVia ==
    \E r \in Repos : \E entry \in Entries(objs, DataOf(r)) :
        /\ HolderCount(DataOf(r)) < MaxHolders
        /\ WriteTo(r, [DataOf(r) EXCEPT ![receipt_key] =
                        Append(@, [unique_code |-> HolderCodeBase + HolderCount(DataOf(r)),
                                   composition |-> <<entry>>])], 1)
        /\ present' = present \cup {receipt_key}
        /\ UNCHANGED <<objs, settings, file_name, file, calls, logger>>

\* repo.data.setdefault("transaction_model", []).append(transaction)
AppendTransactionVia ==
    \E r \in Repos : \E t \in Transactions(objs, DataOf(r)) :
        /\ HolderCount(DataOf(r)) < MaxHolders
        /\ WriteTo(r, [DataOf(r) EXCEPT ![transaction_key] =
                        Append(@, [unique_code |-> HolderCodeBase + HolderCount(DataOf(r))]
                                  @@ t)], 1)
        /\ present' = present \cup {transaction_key}
        /\ UNCHANGED <<objs, settings, file_name, file, calls, logger>>

\* repo = reposity_manager(); repo.data.clear()
ClearVia ==
    \E r \in Repos :
        /\ \E key \in KeySet : DataOf(r)[key] # <<>>
        /\ IF DataRef(r) = ClassData
           THEN /\ data' = [key \in KeySet |-> <<>>]
                /\ inst' = [x \in Repos |-> [inst[x] EXCEPT !.appended = 0]]
                /\ objs' = [a \in Addrs |-> NoObj]
           ELSE /\ inst' = [inst EXCEPT ![r] = [data |-> [key \in KeySet |-> <<>>],
                                                appended |-> 0]]
                /\ UNCHANGED <<data, objs>>
        /\ present' = {}
        /\ UNCHANGED <<settings, file_name, file, calls, logger>>

NextShared ==
    \/ SharedAdd \/ SharedUpdate \/ SharedDelete
    \/ AppendReceiptVia \/ AppendTransactionVia \/ ClearVia \/ LockDateChanged

SpecShared == InitPersist /\ [][NextShared]_vars

\* ------------------------------------------------------------------- claims
\* the texts that resolve to a collection
Resolved == {rt \in RefTypes : RepoKeyOf[rt] # UnknownKey}

\* A holder x of the collection under key refers to item_id: by a bare id field, by
\* an embedded object with that unique_code, or inside its composition list.
HolderRefersTo(o, key, x, item_id) ==
    IF key \in ModelKeys
    THEN RefersTo(o, o[x].range, item_id) \/ RefersTo(o, o[x].category, item_id)
    ELSE IF key = receipt_key
    THEN \E j \in DOMAIN x.composition :
            \/ x.composition[j].nomenclature_id = item_id
            \/ RefersTo(o, x.composition[j].nomenclature, item_id)
            \/ RefersTo(o, x.composition[j].unit, item_id)
            \/ RefersTo(o, x.composition[j].storage, item_id)
    ELSE \/ x.nomenclature_id = item_id
         \/ RefersTo(o, x.nomenclature, item_id)
         \/ RefersTo(o, x.unit, item_id)
         \/ RefersTo(o, x.storage, item_id)

ReferencedElsewhere(o, d, own_key, item_id) ==
    \E key \in DOMAIN d \ {own_key} :
        \E i \in DOMAIN d[key] : HolderRefersTo(o, key, d[key][i], item_id)

\* C1: delete of an id that exists in its collection and that an entity of any other
\* collection refers to (bare id, embedded object, or element of a composition list)
\* fails with the referential-integrity error and leaves the repository as it was.
C1_DeleteOfReferencedFails ==
    \A rt \in Resolved, item_id \in Ids :
        LET key == RepoKeyOf[rt]
            res == DeleteCall(objs, data, rt, item_id)
        IN  (FindFirst(objs, data, key, item_id) # None
             /\ ReferencedElsewhere(objs, data, key, item_id))
            => (res.outcome = "in_use" /\ res.objs = objs /\ res.data = data)

\* the unique codes of the reference entities the repository holds
PresentCodes(o, d) ==
    UNION {{o[d[key][i]].unique_code : i \in DOMAIN d[key]} : key \in ModelKeys}

Resolves(o, d, val) == val = None \/ o[val].unique_code \in PresentCodes(o, d)

\* every bare id and every embedded reference names an entity of the repository
NoDangling(o, d) ==
    /\ \A key \in ModelKeys : \A i \in DOMAIN d[key] :
            Resolves(o, d, o[d[key][i]].range) /\ Resolves(o, d, o[d[key][i]].category)
    /\ \A i \in DOMAIN d[receipt_key] : \A j \in DOMAIN d[receipt_key][i].composition :
            LET e == d[receipt_key][i].composition[j]
            IN  /\ e.nomenclature_id \in PresentCodes(o, d) \cup {None}
                /\ Resolves(o, d, e.nomenclature)
                /\ Resolves(o, d, e.unit)
                /\ Resolves(o, d, e.storage)
    /\ \A i \in DOMAIN d[transaction_key] :
            LET t == d[transaction_key][i]
            IN  /\ t.nomenclature_id \in PresentCodes(o, d) \cup {None}
                /\ Resolves(o, d, t.nomenclature)
                /\ Resolves(o, d, t.unit)
                /\ Resolves(o, d, t.storage)

\* C2: no dangling reference: from the empty repository, with holders appended only
\* when their references resolve, after any sequence of add, update and delete every
\* composition entry's nomenclature_id and every embedded reference's id is the
\* unique_code of an entity present in the repository.
C2_NoDanglingReference == NoDangling(objs, data)

\* the attributes of the entity at address a
SameAttributes(o, a, b) == a # None /\ b # None /\ o[a] = o[b]

\* holder x (of the collection under key) shows target wherever it refers to a
\* target_cls entity with the code item_id
HolderCurrent(o, key, x, target_cls, item_id, target) ==
    LET Fresh(val) == RefersTo(o, val, item_id) /\ o[val].cls = target_cls
                      => SameAttributes(o, val, target)
        Bare(id, val) == (target_cls = "nomenclature_model" /\ id = item_id)
                         => SameAttributes(o, val, target)
    IN  IF key \in ModelKeys
        THEN Fresh(o[x].range) /\ Fresh(o[x].category)
        ELSE IF key = receipt_key
        THEN \A j \in DOMAIN x.composition :
                /\ Fresh(x.composition[j].nomenclature)
                /\ Fresh(x.composition[j].unit)
                /\ Fresh(x.composition[j].storage)
                /\ Bare(x.composition[j].nomenclature_id, x.composition[j].nomenclature)
        ELSE /\ Fresh(x.nomenclature) /\ Fresh(x.unit) /\ Fresh(x.storage)
             /\ Bare(x.nomenclature_id, x.nomenclature)

\* C3: after a successful update of entity X every holder in every other collection
\* that refers to X (bare nomenclature id or embedded object) exposes an embedded
\* reference whose attributes are X's current ones: none is stale or unresolved.
C3_HoldersSeeUpdatedTarget ==
    \A rt \in Resolved, item_id \in Ids, p \in Payloads :
        LET key == RepoKeyOf[rt]
            res == UpdateCall(objs, data, rt, item_id, p)
        IN  res.outcome = "ok"
            => \A k \in DOMAIN res.data \ {key} : \A i \in DOMAIN res.data[k] :
                    HolderCurrent(res.objs, k, res.data[k][i], ClassOfKey(key),
                                  item_id, res.ret)

\* C4: after a successful add that returns entity E, get(kind, E.unique_code) returns
\* exactly one entity, and it is E, whatever adds came before.
C4_AddThenGetReturnsOne ==
    FreeAddrs(objs) # {}
    => \A rt \in Resolved, dto \in Dtos :
        LET res == AddCall(objs, data, rt, dto)
        IN  res.outcome = "ok"
            => Get(res.objs, res.data, rt, res.objs[res.ret].unique_code) = <<res.ret>>

\* C5: add of a payload whose unique_code an entity of the target collection already
\* has fails with the duplicate-key error, appends nothing, publishes no event.
C5_DuplicateAddFails ==
    FreeAddrs(objs) # {}
    => \A rt \in Resolved, dto \in Dtos :
        LET res == AddCall(objs, data, rt, dto)
        IN  (dto.cls = DtoClassFor(ModelClassOf[rt])
             /\ FindFirst(objs, data, RepoKeyOf[rt], dto.id) # None)
            => (res.outcome = "duplicate_key" /\ res.data = data /\ res.objs = objs
                /\ res.trace = <<>>)

\* C6: no collection ever holds two entities with the same unique_code.
C6_UniqueCodesPerCollection ==
    \A key \in DOMAIN data : \A i, j \in DOMAIN data[key] :
        UniqueCode(objs, key, data[key][i]) = UniqueCode(objs, key, data[key][j])
        => i = j

\* C7: update and delete of an id that the collection of the given kind does not hold
\* (also one that only another kind's collection holds) fail with the not-found error,
\* change no collection, publish no event.
C7_MissingTargetNotFound ==
    \A rt \in Resolved, item_id \in Ids :
        FindFirst(objs, data, RepoKeyOf[rt], item_id) = None
        => /\ \A p \in Payloads :
                UpdateCall(objs, data, rt, item_id, p) = Raised("not_found", objs, data)
           /\ DeleteCall(objs, data, rt, item_id) = Raised("not_found", objs, data)

\* a state in which an id is missing from the collection asked for while another
\* kind's collection holds it, and both calls have been refused
C7_Witness ==
    \E rt \in Resolved, item_id \in Ids :
        /\ FindFirst(objs, data, RepoKeyOf[rt], item_id) = None
        /\ \E k \in ModelKeys \ {RepoKeyOf[rt]} : FindFirst(objs, data, k, item_id) # None
        /\ DeleteCall(objs, data, rt, item_id).outcome = "not_found"
        /\ \A p \in Payloads : UpdateCall(objs, data, rt, item_id, p).outcome = "not_found"

\* C8: update is idempotent: for every kind, every id its collection holds and every
\* field mapping, update(kind, id, fields) succeeds, and applied a second time it
\* returns the same entity and leaves the repository, target and holders, exactly as
\* the first application left it (an absent id is refused both times, see C7).
C8_UpdateIdempotent ==
    \A rt \in Resolved, item_id \in Ids :
        FindFirst(objs, data, RepoKeyOf[rt], item_id) # None
        => \A p \in Payloads :
            LET once == UpdateCall(objs, data, rt, item_id, p)
            IN  /\ once.outcome = "ok"
                /\ UpdateCall(once.objs, once.data, rt, item_id, p) = once

\* a state an update has just produced: the audit record names the update, the target
\* carries the new name and a transaction was resolved to the target by the cascade
C8_Witness ==
    /\ settings.action = "update"
    /\ "name" \in DOMAIN settings.payload
    /\ \E i \in DOMAIN data[nomenclature_key], j \in DOMAIN data[transaction_key] :
        /\ objs[data[nomenclature_key][i]].unique_code = settings.id
        /\ objs[data[nomenclature_key][i]].name = settings.payload.name
        /\ objs[data[nomenclature_key][i]].name # 1
        /\ data[transaction_key][j].nomenclature = data[nomenclature_key][i]

\* the bare ids of the holders, in place
BareIds(d) ==
    [key \in {receipt_key, transaction_key} |->
        IF key = receipt_key
        THEN [i \in DOMAIN d[key] |->
                [j \in DOMAIN d[key][i].composition |->
                    d[key][i].composition[j].nomenclature_id]]
        ELSE [i \in DOMAIN d[key] |-> d[key][i].nomenclature_id]]

\* C9: update never changes a holder's bare-id field: every composition entry's and
\* every transaction's nomenclature_id is after update(kind, X, fields) what it was
\* before, whether it equalled X or not.
C9_UpdateKeepsBareIds ==
    \A rt \in Resolved, item_id \in Ids, p \in Payloads :
        BareIds(UpdateCall(objs, data, rt, item_id, p).data) = BareIds(data)

\* a state an update of X has just produced in which a transaction holds the bare id X
\* and has been resolved by the cascade
C9_Witness ==
    /\ settings.action = "update"
    /\ \E j \in DOMAIN data[transaction_key] :
        /\ data[transaction_key][j].nomenclature_id = settings.id
        /\ data[transaction_key][j].nomenclature # None
        /\ objs[data[transaction_key][j].nomenclature].unique_code = settings.id

\* C10: a delete that passes the dependency scan publishes reference_delete_validation
\* before it removes the entity (so that a subscriber can still abort it: the entity
\* stays and no reference_deleted event is published).
C10_DeleteValidationEvent ==
    \A rt \in Resolved, item_id \in Ids :
        LET key == RepoKeyOf[rt]
            res == DeleteCall(objs, data, rt, item_id)
        IN  (FindFirst(objs, data, key, item_id) # None
             /\ IsUsedElsewhere(objs, data, item_id, key) = {})
            => \E n \in DOMAIN res.trace :
                /\ res.trace[n] = "reference_delete_validation"
                /\ \A m \in DOMAIN res.trace : res.trace[m] = "remove" => n < m

\* the call whose result is res returns as it would have, with the repository and
\* the audit record it assigned, although a subscriber of its event failed
Committed(res, fails) ==
    LET after == PostCommit(objs, data, res, fails)
    IN  /\ after.outcome = "ok"
        /\ after.objs = res.objs
        /\ after.data = res.data
        /\ after.audit = res.audit

\* C11: when a subscriber of reference_added, reference_updated or reference_deleted
\* signals failure, what the publishing call did to the repository stays: the added
\* entity is in its collection, the updated field keeps its new value, the deleted
\* entity stays removed.
C11_PostCommitFailureKeepsMutation ==
    \A rt \in Resolved, item_id \in Ids :
        LET key == RepoKeyOf[rt]
        IN  /\ FreeAddrs(objs) # {} =>
                \A dto \in {x \in Dtos : x.id = item_id} :
                    LET res == AddCall(objs, data, rt, dto)
                        after == PostCommit(objs, data, res, TRUE)
                    IN  res.outcome = "ok"
                        => /\ Committed(res, TRUE)
                           /\ \E i \in DOMAIN after.data[key] :
                                /\ after.data[key][i] = after.ret
                                /\ after.objs[after.ret].unique_code = item_id
                                /\ Len(after.data[key]) = Len(data[key]) + 1
            /\ \A p \in {x \in Payloads : "name" \in DOMAIN x} :
                    LET res == UpdateCall(objs, data, rt, item_id, p)
                        after == PostCommit(objs, data, res, TRUE)
                    IN  res.outcome = "ok"
                        => /\ Committed(res, TRUE)
                           /\ after.objs[after.ret].name = p.name
                           /\ after.data[key][FindFirst(after.objs, after.data, key, item_id)]
                                = after.ret
            /\ LET res == DeleteCall(objs, data, rt, item_id)
                   after == PostCommit(objs, data, res, TRUE)
               IN  res.outcome = "ok"
                   => /\ Committed(res, TRUE)
                      /\ FindFirst(after.objs, after.data, key, item_id) = None

\* a state a delete has produced, the deleted id gone, in which an update whose
\* subscriber fails goes through
C11_Witness ==
    /\ settings.action = "delete"
    /\ \A key \in ModelKeys : FindFirst(objs, data, key, settings.id) = None
    /\ \E rt \in Resolved, item_id \in Ids, p \in Payloads :
        LET after == PostCommit(objs, data, UpdateCall(objs, data, rt, item_id, p), TRUE)
        IN  /\ after.outcome = "ok"
            /\ after.trace[Len(after.trace)] = "handler_failed"

\* the steps of a call that assign to the repository, and the events
MutationSteps == {"append", "setattr", "cascade", "remove"}
PostCommitEvents == {"reference_added", "reference_updated", "reference_deleted"}

\* res is the result of a call whose event is event: a successful call publishes event
\* once, as its only event, after every one of its assignments; a call that raised
\* published nothing and assigned nothing
OnceAfterMutation(res, event) ==
    IF res.outcome = "ok"
    THEN /\ Cardinality({n \in DOMAIN res.trace : res.trace[n] \in PostCommitEvents}) = 1
         /\ \E n \in DOMAIN res.trace :
                /\ res.trace[n] = event
                /\ n > 1
                /\ \A m \in DOMAIN res.trace :
                        (res.trace[m] \in MutationSteps) <=> m < n
    ELSE /\ res.trace = <<>>
         /\ res.objs = objs
         /\ res.data = data

\* C12: add, update and delete publish their event (reference_added, reference_updated,
\* reference_deleted) exactly once per successful call and only after the repository
\* has been changed; a call that fails (unknown kind, target not found, target still
\* referenced) publishes no event and changes nothing.
C12_EventOncePerSuccess ==
    \A rt \in RefTypes, item_id \in Ids :
        /\ FreeAddrs(objs) # {} =>
            \A dto \in {x \in Dtos : x.id = item_id} :
                OnceAfterMutation(AddCall(objs, data, rt, dto), "reference_added")
        /\ \A p \in Payloads :
                OnceAfterMutation(UpdateCall(objs, data, rt, item_id, p), "reference_updated")
        /\ OnceAfterMutation(DeleteCall(objs, data, rt, item_id), "reference_deleted")

\* a state a delete has produced in which one delete is refused for a live reference,
\* another for an unknown kind and a third for a missing target
C12_Witness ==
    /\ settings.action = "delete"
    /\ \E rt \in RefTypes, item_id \in Ids :
            DeleteCall(objs, data, rt, item_id).outcome = "in_use"
    /\ \E rt \in RefTypes, item_id \in Ids :
            DeleteCall(objs, data, rt, item_id).outcome = "unknown_kind"
    /\ \E rt \in RefTypes, item_id \in Ids :
            DeleteCall(objs, data, rt, item_id).outcome = "not_found"

\* the ordered table of kind names with the collection of each
KindTable ==
    <<[name |-> S_nomenclature, key |-> nomenclature_key],
      [name |-> S_range, key |-> range_key],
      [name |-> S_unit, key |-> range_key],
      [name |-> S_group, key |-> group_key],
      [name |-> S_category, key |-> group_key],
      [name |-> S_storage, key |-> storage_key],
      [name |-> S_warehouse, key |-> storage_key]>>

\* exact match first, then prefix match, the first matching entry winning
TableKey(t) ==
    LET exact == {i \in DOMAIN KindTable : KindTable[i].name = t}
        prefix == {i \in DOMAIN KindTable :
                      t # <<>> /\ (StartsWith(t, KindTable[i].name)
                                   \/ StartsWith(KindTable[i].name, t))}
        First(S) == CHOOSE i \in S : \A j \in S : i <= j
    IN  IF exact # {} THEN KindTable[First(exact)].key
        ELSE IF prefix # {} THEN KindTable[First(prefix)].key
        ELSE UnknownKey

TableKeyOf == [reference_type \in RefTypes |-> TableKey(NormaliseType(reference_type))]

\* C13: kind resolution is by exact match, then by prefix match against the ordered
\* table of kind names, the first matching entry winning: a normalised kind text that
\* matches a table name by prefix resolves to that kind's collection for get, add,
\* update and delete alike, and only a text that matches no entry fails.
C13_PrefixMatchResolves ==
    \A rt \in RefTypes :
        /\ RepoKeyOf[rt] = TableKeyOf[rt]
        /\ TableKeyOf[rt] # UnknownKey
           => \A item_id \in Ids :
                /\ GetCall(objs, data, rt, item_id).outcome = "ok"
                /\ DeleteCall(objs, data, rt, item_id).outcome # "unknown_kind"
                /\ \A p \in Payloads :
                        UpdateCall(objs, data, rt, item_id, p).outcome # "unknown_kind"
                /\ FreeAddrs(objs) # {}
                   => \A dto \in Dtos :
                        AddCall(objs, data, rt, dto).outcome
                            \notin {"unknown_kind", "unsupported"}

\* the sixteen names of _map_type_to_repo_key, a text that is none of them, and the
\* empty text
KindNames ==
    {S_nomenclature, S_nomenclature_model, S_nomenclatures, S_nomen,
     S_range, S_range_model, S_unit, S_units,
     S_group, S_category, S_group_model, S_category_model,
     S_storage, S_warehouse, S_storage_model, S_warehouse_model}
PlainTexts == KindNames \cup {In_nomenclat, <<>>}

\* the spellings of a text: in capitals, with a capital initial, padded with blanks
Spellings(s) ==
    {s,
     [i \in DOMAIN s |-> UpperChar(s[i])],
     [i \in DOMAIN s |-> IF i = 1 THEN UpperChar(s[i]) ELSE s[i]],
     <<" ">> \o s,
     s \o <<" ", "\n">>,
     <<"\t", " ">> \o [i \in DOMAIN s |-> UpperChar(s[i])] \o <<" ">>}

SpellingKeys ==
    [s \in PlainTexts |-> {MapTypeToRepoKey(v) : v \in Spellings(s)}]

\* C14: kind resolution does not depend on letter case nor on leading and trailing
\* whitespace; the synonyms range and unit resolve to one key, group and category to
\* one key, storage and warehouse to one key; the four kinds have four distinct keys.
C14_CaseWhitespaceSynonyms ==
    /\ \A s \in PlainTexts : SpellingKeys[s] = {MapTypeToRepoKey(s)}
    /\ SpellingKeys[S_range] = SpellingKeys[S_unit]
    /\ SpellingKeys[S_group] = SpellingKeys[S_category]
    /\ SpellingKeys[S_storage] = SpellingKeys[S_warehouse]
    /\ Cardinality(UNION {SpellingKeys[s] :
                            s \in {S_nomenclature, S_range, S_group, S_storage}}) = 4
    /\ \A s \in KindNames : UnknownKey \notin SpellingKeys[s]
    /\ \A rt \in Resolved : settings.type = rt /\ settings.action = "add"
            => data[RepoKeyOf[rt]] # <<>>

\* a state in which an add called with the kind " Unit " has put a unit into the
\* collection of ranges
C14_Witness ==
    /\ settings.type = In_Unit
    /\ settings.action = "add"
    /\ \E i \in DOMAIN data[range_key] : objs[data[range_key][i]].unique_code = settings.id

\* the texts passed that are none of the sixteen names once trimmed and lowered
Unresolvable == {rt \in RefTypes : NormaliseType(rt) \notin KindNames}

\* the call whose result is res raised the unknown-kind error, assigned nothing and
\* published nothing
RefusedUnknown(res) ==
    /\ res.outcome = "unknown_kind"
    /\ res.objs = objs
    /\ res.data = data
    /\ DOMAIN res.data = KeySet
    /\ res.trace = <<>>

\* C15: get, add, update and delete called with a kind text that resolves to none of
\* the four kinds (the empty text included) fail with the unknown-kind error before
\* they touch the repository: no collection is created or changed, no event published.
C15_UnknownKindFails ==
    \A rt \in Unresolvable, item_id \in Ids :
        /\ RefusedUnknown(GetCall(objs, data, rt, item_id))
        /\ \A dto \in {x \in Dtos : x.id = item_id} :
                RefusedUnknown(AddBody(objs, data, rt, RepoKeyOf[rt], ModelClassOf[rt], dto))
        /\ \A p \in Payloads : RefusedUnknown(UpdateCall(objs, data, rt, item_id, p))
        /\ RefusedUnknown(DeleteCall(objs, data, rt, item_id))

\* a state that holds an entity and a holder, in which the empty text and an unlisted
\* text are passed as kind
C15_Witness ==
    /\ <<>> \in Unresolvable
    /\ In_nomenclat \in Unresolvable
    /\ data[nomenclature_key] # <<>>
    /\ data[receipt_key] # <<>>
    /\ \A item_id \in Ids : DeleteCall(objs, data, <<>>, item_id).outcome = "unknown_kind"

\* what get, the dependency scan and the cascade read from an element of an entity
\* collection: its attributes, a reference by the code of the entity referred to
AttrView(o, a) ==
    IF IsDict(o, a)
    THEN [unique_code |-> None, name |-> None, range |-> None, category |-> None]
    ELSE [unique_code |-> o[a].unique_code, name |-> o[a].name,
          range |-> IF o[a].range = None THEN None ELSE o[o[a].range].unique_code,
          category |-> IF o[a].category = None THEN None
                       ELSE o[o[a].category].unique_code]

EntityView(o, d) ==
    [key \in ModelKeys |-> [i \in DOMAIN d[key] |-> AttrView(o, d[key][i])]]

\* C16: round trip: for any repository state, save followed by load reproduces for
\* every key a collection equivalent to the saved one: the same entities in the same
\* order, read alike by get, by delete's dependency scan and by update's cascade.
C16_SaveLoadRoundTrip ==
    LET saved == SaveCall(objs, data, Path, file, FALSE)
        res == LoadCall(objs, data, present, Path, saved.file)
    IN  /\ saved.outcome = "ok"
        /\ res.outcome = "ok"
        /\ \A key \in KeySet : Len(res.data[key]) = Len(data[key])
        /\ EntityView(res.objs, res.data) = EntityView(objs, data)

\* the repository has no key mapped to anything but the empty list
AllEmpty(d) == \A key \in KeySet : d[key] = <<>>

\* C17: load with a configured path whose file does not exist does not raise: it
\* returns False, the not-loaded signal, and leaves every key of the closed key set
\* mapped to an empty collection.
C17_LoadMissingFile ==
    LET res == LoadCall(objs, data, present, Path, NoFile)
    IN  /\ res.outcome = "not_loaded"
        /\ res.ret = "False"
        /\ KeySet \subseteq res.present
        /\ AllEmpty(res.data)

\* a state with a path configured, no file and an entity in the repository
C17_Witness ==
    /\ file_name = Path
    /\ file.kind = "missing"
    /\ ~AllEmpty(data)
    /\ AllEmpty(LoadCall(objs, data, present, file_name, file).data)

C19_ClosedKeySet ==
    /\ LET rep == InitalizeCall(objs, data, present)
       IN  KeySet \subseteq rep.present /\ AllEmpty(rep.data)
    /\ LET res == LoadCall(objs, data, present, Path, file)
       IN  res.outcome = "ok"
           => /\ KeySet \subseteq res.present
              /\ \A key \in KeySet \ DOMAIN file.doc : res.data[key] = <<>>
              /\ \A key \in DOMAIN file.doc : Len(res.data[key]) = Len(file.doc[key])
    /\ LET saved == SaveCall(objs, data, Path, file, FALSE)
       IN  /\ saved.outcome = "ok"
           /\ DOMAIN saved.file.doc = KeySet
           /\ \A key \in KeySet : Len(saved.file.doc[key]) = Len(data[key])

\* a state whose mapping lacks keys while the configured file is a document that
\* lacks a key and holds an entity under another
C19_Witness ==
    /\ file_name = Path
    /\ file.kind = "object"
    /\ DOMAIN file.doc # KeySet
    /\ \E key \in DOMAIN file.doc : file.doc[key] # <<>>
    /\ present # KeySet
    /\ LoadCall(objs, data, present, file_name, file).present = KeySet

\* the unique codes of the entities, collection by collection, in place
Codes(o, d) ==
    [key \in ModelKeys |-> [i \in DOMAIN d[key] |-> UniqueCode(o, key, d[key][i])]]

EntityAttrs == DOMAIN NoObj \ {"cls"}
UnknownFieldPayloads == {[name |-> n, bogus |-> 1] : n \in Names} \cup {[bogus |-> 1]}

\* C21: update with a field mapping that names fields the target does not have
\* succeeds: the unknown names are skipped (the target gains no attribute), the known
\* names of the same mapping are applied, the target's other attributes are unchanged.
C21_UnknownFieldsSkipped ==
    \A rt \in Resolved, item_id \in Ids :
        LET key == RepoKeyOf[rt]
            i == FindFirst(objs, data, key, item_id)
        IN  i # None
            => \A p \in UnknownFieldPayloads :
                LET res == UpdateCall(objs, data, rt, item_id, p)
                    before == AttrView(objs, data[key][i])
                IN  /\ DOMAIN p \ EntityAttrs # {}
                    /\ res.outcome = "ok"
                    /\ res.ret # None
                    /\ DOMAIN res.objs[res.ret] = DOMAIN objs[data[key][i]]
                    /\ AttrView(res.objs, res.ret)
                         = [before EXCEPT !.name = IF "name" \in DOMAIN p THEN p.name ELSE @]

\* a state an update with a mapping naming an unknown field has just produced: the
\* call succeeded and the target carries the name given beside the unknown field
C21_Witness ==
    /\ settings.action = "update"
    /\ DOMAIN settings.payload \ EntityAttrs # {}
    /\ "name" \in DOMAIN settings.payload
    /\ \E rt \in Resolved :
        LET i == FindFirst(objs, data, RepoKeyOf[rt], settings.id)
        IN  /\ settings.type = rt
            /\ i # None
            /\ objs[data[RepoKeyOf[rt]][i]].name = settings.payload.name
            /\ DOMAIN objs[data[RepoKeyOf[rt]][i]] = DOMAIN NoObj

WithoutRaw(d) ==
    [d EXCEPT ![receipt_key] = KeepIndices(@, {i \in DOMAIN @ : ~IsRaw(@[i])}, 1)]

RefView(o, a) ==
    IF a = None
    THEN [unique_code |-> None, name |-> None, range |-> None, category |-> None]
    ELSE AttrView(o, a)

EntryView(o, e) ==
    [nomenclature_id |-> e.nomenclature_id, nomenclature |-> RefView(o, e.nomenclature),
     unit |-> RefView(o, e.unit), storage |-> RefView(o, e.storage)]

\* the collection under key as its readers see it
CollectionView(o, d, key) ==
    IF key \in ModelKeys THEN [i \in DOMAIN d[key] |-> AttrView(o, d[key][i])]
    ELSE IF key = receipt_key
    THEN [i \in DOMAIN d[key] |->
            [unique_code |-> d[key][i].unique_code,
             composition |-> [j \in DOMAIN d[key][i].composition |->
                                EntryView(o, d[key][i].composition[j])]]]
    ELSE [i \in DOMAIN d[key] |->
            [unique_code |-> d[key][i].unique_code, entry |-> EntryView(o, d[key][i])]]

\* C25: a successful delete(kind, id) removes exactly the entity with that id from
\* the kind's collection: one element goes, the remaining ones keep their relative
\* order, and every other collection is what it was.
C25_DeleteRemovesExactlyOne ==
    \A rt \in Resolved, item_id \in Ids :
        LET key == RepoKeyOf[rt]
            res == DeleteCall(objs, data, rt, item_id)
            i == FindFirst(objs, data, key, item_id)
        IN  res.outcome = "ok"
            => /\ CollectionView(res.objs, res.data, key)
                    = KeepIndices(CollectionView(objs, data, key), DOMAIN data[key] \ {i}, 1)
               /\ \A k \in KeySet \ {key} :
                    CollectionView(res.objs, res.data, k) = CollectionView(objs, data, k)

\* what holds whatever the codes are: delete removes every element that carries the
\* id, keeps the order of the others and leaves the other collections alone
DeleteRemovesAllWithId ==
    \A rt \in Resolved, item_id \in Ids :
        LET key == RepoKeyOf[rt]
            res == DeleteCall(objs, data, rt, item_id)
        IN  res.outcome = "ok"
            => /\ CollectionView(res.objs, res.data, key)
                    = KeepIndices(CollectionView(objs, data, key),
                                  {j \in DOMAIN data[key] :
                                        UniqueCode(objs, key, data[key][j]) # item_id}, 1)
               /\ \A k \in KeySet \ {key} :
                    CollectionView(res.objs, res.data, k) = CollectionView(objs, data, k)

\* a property of every call add, update and delete that can be made in the current
\* state
EveryAuditedCall(P(_)) ==
    /\ \A rt \in AuditTypes, dto \in PersistDtos :
        FreeAddrs(objs) # {} => P(AddCall(objs, data, rt, dto))
    /\ \A rt \in AuditTypes, item_id \in Ids :
        /\ P(DeleteCall(objs, data, rt, item_id))
        /\ \A name \in Names : P(UpdateCall(objs, data, rt, item_id, [name |-> name]))

\* the record a call leaves is its own when it succeeded, the previous one otherwise
OwnOrKept(res, store_fails) ==
    IF res.outcome = "ok"
    THEN AuditOf(settings, res, store_fails) = res.audit
    ELSE AuditOf(settings, res, store_fails) = settings

OwnOrKeptAlways(res) == \A store_fails \in BOOLEAN : OwnOrKept(res, store_fails)

OwnWhenWritten(res) ==
    /\ OwnOrKept(res, FALSE)
    /\ AuditOf(settings, res, TRUE) = settings
    /\ res.outcome = "ok" => res.audit.action \in {"add", "update", "delete"}

handler_receipts_key == "receipts"

\* self._repo.data.get(key, []): the list under the key, empty when the key is absent
DataGet(d, key) == IF key \in DOMAIN d THEN d[key] ELSE <<>>

\* the composition entries of a list of receipts, in the order the two loops visit them
RECURSIVE CompositionsOf(_)
CompositionsOf(receipts) ==
    IF receipts = <<>> THEN <<>>
    ELSE Head(receipts).composition \o CompositionsOf(Tail(receipts))

\* the loops of _validate_delete over the entries: comp.get exists on a dict only, an
\* entry that is an object stops the scan with an AttributeError
RECURSIVE ScanCompositions(_, _)
ScanCompositions(comps, ref_id) ==
    IF comps = <<>> THEN "ok"
    ELSE IF Head(comps).shape # "dict" THEN "attribute_error"
    ELSE IF Head(comps).nomenclature_id = ref_id THEN "operation_exception"
    ELSE ScanCompositions(Tail(comps), ref_id)

\* reference_handler._validate_delete
ValidateDelete(d, ref_id) ==
    ScanCompositions(CompositionsOf(DataGet(d, handler_receipts_key)), ref_id)

\* reference_handler._propagate_update: the matching entries of the receipts under the
\* handler's key take the new name
PropagateUpdate(d, ref_id, name) ==
    IF handler_receipts_key \notin DOMAIN d THEN d
    ELSE [d EXCEPT ![handler_receipts_key] =
            [i \in DOMAIN @ |->
                [@[i] EXCEPT !.composition =
                    [j \in DOMAIN @ |->
                        IF @[j].nomenclature_id = ref_id
                        THEN [x \in DOMAIN @[j] \cup {"nomenclature_name"} |->
                                IF x = "nomenclature_name" THEN name ELSE @[j][x]]
                        ELSE @[j]]]]]

HandlerEventTypes ==
    {"reference_delete_validation", "reference_updated", "reference_added",
     "reference_deleted", "lock_date_changed"}

\* what handle may be given: an event_dto with a type and a payload's unique_code and
\* name, or something that is no event_dto
HandlerArgs ==
    [is_event : BOOLEAN, event_type : HandlerEventTypes,
     unique_code : Ids \cup {None}, name : Names]

\* reference_handler.handle: whether it raised, and the repository afterwards
HandlerHandle(d, evt) ==
    IF ~evt.is_event THEN [outcome |-> "ok", data |-> d]
    ELSE IF evt.event_type = "reference_delete_validation"
    THEN [outcome |-> ValidateDelete(d, evt.unique_code), data |-> d]
    ELSE IF evt.event_type = "reference_updated"
    THEN [outcome |-> "ok", data |-> PropagateUpdate(d, evt.unique_code, evt.name)]
    ELSE [outcome |-> "ok", data |-> d]

\* the id occurs as nomenclature_id in the composition of a receipt of the receipt
\* collection
InReceiptComposition(d, ref_id) ==
    \E i \in DOMAIN d[receipt_key] : \E j \in DOMAIN d[receipt_key][i].composition :
        d[receipt_key][i].composition[j].nomenclature_id = ref_id

\* C27: handling a delete-validation event raises operation_exception exactly when the
\* event's entity id occurs as nomenclature_id in the composition of a receipt of the
\* repository's receipt collection; otherwise, and for an argument that is no event, it
\* returns normally; it never modifies the repository.
C27_ValidationRaisesWhenInReceipt ==
    \A evt \in HandlerArgs :
        LET res == HandlerHandle(data, evt)
        IN  /\ res.data = data
            /\ res.outcome = "operation_exception"
                <=> /\ evt.is_event
                    /\ evt.event_type = "reference_delete_validation"
                    /\ InReceiptComposition(data, evt.unique_code)
            /\ res.outcome \in {"ok", "operation_exception"}

\* in every reachable state the handler's validation returns normally, whatever the
\* receipt collection holds
ValidationNeverRaises ==
    \A evt \in HandlerArgs : HandlerHandle(data, evt).outcome = "ok"

\* ------------------------------------------------------- the log
\* an event reaches the logging service
LogEvent ==
    \E event \in LogEventNames, params \in LogParams :
        /\ Len(logger.lines) < MaxLines
        /\ logger' = LoggingHandle(logger, event, params)
        /\ UNCHANGED <<objs, data, settings, present, file_name, file, inst, calls>>

\* the settings are read again
ReloadSettings ==
    \E has_min_level \in BOOLEAN, min_level \in LevelTexts :
        /\ logger' = [logger EXCEPT !.level = ReloadedLevel(has_min_level, min_level)]
        /\ UNCHANGED <<objs, data, settings, present, file_name, file, inst, calls>>

NextLogging == LogEvent \/ ReloadSettings

SpecLogging == Init /\ [][NextLogging]_vars

\* the level a log event has by its name: the three levels in any letter case, every
\* other name counting as INFO
NamedLevel(text) ==
    IF text \in {T_DEBUG, T_debug} THEN T_DEBUG
    ELSE IF text \in {T_ERROR, T_Error} THEN T_ERROR
    ELSE T_INFO

\* the events that are log events, and the level of each
IsLogEvent(event) ==
    event \in {E_log, E_LOG_DEBUG, E_LOG_INFO, E_LOG_ERROR, E_LOG_debug, E_LOG_TRACE}

LevelOfEvent(event, params) ==
    IF event = E_log
    THEN (IF params.is_dict /\ params.has_level THEN NamedLevel(params.level) ELSE T_INFO)
    ELSE IF event \in {E_LOG_DEBUG, E_LOG_debug} THEN T_DEBUG
    ELSE IF event = E_LOG_ERROR THEN T_ERROR
    ELSE T_INFO

Severity == <<T_DEBUG, T_INFO, T_ERROR>>
AtLeast(a, b) ==
    \E i, j \in DOMAIN Severity : Severity[i] = a /\ Severity[j] = b /\ i >= j

MinimumOf(lg) == Severity[lg.level]

DictParams(level, message) ==
    [is_dict |-> TRUE, has_level |-> TRUE, level |-> level, message |-> message]

\* C28: the logging service writes exactly one line for each 'log' and 'LOG_<LEVEL>'
\* event whose level is at least the configured minimum (an unrecognised level name
\* counting as INFO) and nothing for an event below the minimum or of another name;
\* with minimum DEBUG, messages of levels DEBUG, INFO and ERROR are all written, in
\* the order handled.
C28_OneLinePerLoggedEvent ==
    /\ \A event \in LogEventNames, params \in LogParams :
        LET after == LoggingHandle(logger, event, params)
        IN  /\ after.level = logger.level
            /\ IF IsLogEvent(event)
                  /\ AtLeast(LevelOfEvent(event, params), MinimumOf(logger))
               THEN /\ Len(after.lines) = Len(logger.lines) + 1
                    /\ SubSeq(after.lines, 1, Len(logger.lines)) = logger.lines
                    /\ after.lines[Len(after.lines)].message = params.message
               ELSE after.lines = logger.lines
    /\ MinimumOf(logger) = T_DEBUG =>
        \A m1, m2, m3 \in Names :
            LET l1 == LoggingHandle(logger, E_log, DictParams(T_DEBUG, m1))
                l2 == LoggingHandle(l1, E_log, DictParams(T_INFO, m2))
                l3 == LoggingHandle(l2, E_log, DictParams(T_ERROR, m3))
            IN  l3.lines = logger.lines \o <<[level |-> T_DEBUG, message |-> m1],
                                             [level |-> T_INFO, message |-> m2],
                                             [level |-> T_ERROR, message |-> m3]>>

\* with minimum DEBUG, a DEBUG, an INFO and an ERROR message were handled and written
C28_Witness ==
    /\ MinimumOf(logger) = T_DEBUG
    /\ Len(logger.lines) = 3
    /\ logger.lines[1].level = T_DEBUG
    /\ logger.lines[2].level = T_INFO
    /\ logger.lines[3].level = T_ERROR

\* the names the resolver knows and add's dispatch refuses
RefusedByAdd ==
    {t \in KindNames : MapTypeToRepoKey(t) # UnknownKey /\ AddDispatch(t) = "unsupported"}

\* C29: the kind resolver and add's dispatch agree: every kind text for which get,
\* update and delete resolve a collection is accepted by add, and add stores the entity
\* in that same collection, built as that same kind.
C29_ResolverAndDispatchAgree ==
    /\ \A t \in KindNames :
        MapTypeToRepoKey(t) # UnknownKey
        => AddDispatch(NormaliseType(t)) = ClassOfKey(MapTypeToRepoKey(t))
    /\ \A rt \in RefTypes :
        (RepoKeyOf[rt] # UnknownKey /\ FreeAddrs(objs) # {})
        => \A dto \in Dtos :
            dto.cls = DtoClassFor(ClassOfKey(RepoKeyOf[rt]))
            => LET res == AddCall(objs, data, rt, dto)
                   key == RepoKeyOf[rt]
               IN  /\ res.outcome = "ok"
                   /\ Len(res.data[key]) = Len(data[key]) + 1
                   /\ res.objs[res.data[key][Len(res.data[key])]].cls = ClassOfKey(key)

\* exactly two of the sixteen names are resolved and refused
RefusedAreTheModelSynonyms == RefusedByAdd = {S_category_model, S_warehouse_model}

\* ------------------------------------------------------- concurrent callers
\* main.py hands every request to the one reference_service ref_svc; neither the
\* routes nor the service take a lock, so a caller inside add and a caller inside
\* delete advance one statement at a time, in any order.  Entities keep their
\* addresses: nothing is released while a caller may still hold it in a local.

\* cache.get(uid): the last element put under a truthy uid
CacheLookup(cache, uid) ==
    LET hits == {i \in DOMAIN cache : cache[i].uid # None /\ cache[i].uid = uid}
    IN  IF hits = {} THEN None
        ELSE cache[CHOOSE i \in hits : \A j \in hits : j <= i].item

\* <model>.from_dto(dto, cache) with the cache add built earlier
FromDtoCached(cache, cls, dto) ==
    [cls |-> cls, unique_code |-> dto.id, name |-> dto.name,
     range |-> IF cls = "nomenclature_model" THEN CacheLookup(cache, dto.range_id)
               ELSE None,
     category |-> IF cls = "nomenclature_model" THEN CacheLookup(cache, dto.category_id)
                  ELSE None]

\* the kinds and payloads of the concurrent callers: units of any id, and the
\* nomenclature MaxId that names the unit 1 or none
ConcTypes == {S_nomenclature, In_Unit}
ConcDtos ==
    {dto \in PersistDtos :
        dto.cls = "nomenclature_dto" => dto.id = MaxId /\ dto.range_id \in {None, 1}}

Overlap(other) ==
    [calls EXCEPT !.overlapped = @ \/ other.pc # "idle"]

\* add, lines 261-270: the key is resolved, the payload validated, the cache built
AddStart ==
    \E reference_type \in ConcTypes, dto \in ConcDtos :
        /\ calls.add.pc = "idle"
        /\ dto.cls = DtoClassFor(ModelClassOf[reference_type])
        /\ FreeAddrs(objs) # {}
        /\ calls' = [Overlap(calls.del) EXCEPT !.add =
                        [pc |-> "cached", reference_type |-> reference_type,
                         dto |-> dto, cache |-> CacheItems(objs, data)]]
        /\ UNCHANGED <<objs, data, settings, present, file_name, file, inst, logger>>

\* add, lines 272-287: the entity is constructed from the payload and the cache
AddConstruct ==
    /\ calls.add.pc = "cached"
    /\ LET a == NewAddr(objs)
       IN  /\ objs' = [objs EXCEPT ![a] =
                        FromDtoCached(calls.add.cache,
                                      ModelClassOf[calls.add.reference_type],
                                      calls.add.dto)]
           /\ calls' = [Overlap(calls.del) EXCEPT !.add =
                            [pc |-> "built", reference_type |-> calls.add.reference_type,
                             model_instance |-> a]]
    /\ UNCHANGED <<data, settings, present, file_name, file, inst, logger>>

\* add, lines 289-304: the entity is appended to the list of its key, the audit
\* record written, the event published, the entity returned
AddAppend ==
    /\ calls.add.pc = "built"
    /\ LET a == calls.add.model_instance
           key == RepoKeyOf[calls.add.reference_type]
       IN  /\ data' = [data EXCEPT ![key] = Append(@, a)]
           /\ settings' = [type |-> calls.add.reference_type, action |-> "add",
                           id |-> objs[a].unique_code, payload |-> <<>>]
           /\ calls' = [Overlap(calls.del) EXCEPT !.add = [pc |-> "idle"],
                                                  !.appended = @ \cup {a}]
    /\ UNCHANGED <<objs, present, file_name, file, inst, logger>>

\* delete, lines 359-363: the key is resolved and the target looked up; a call for an
\* id the list does not hold raises and is not shown
DeleteLookup ==
    \E reference_type \in ConcTypes, item_id \in Ids :
        /\ calls.del.pc = "idle"
        /\ FindTarget(objs, data, RepoKeyOf[reference_type], item_id).index # None
        /\ calls' = [Overlap(calls.add) EXCEPT !.del =
                        [pc |-> "found", reference_type |-> reference_type,
                         item_id |-> item_id]]
        /\ UNCHANGED <<objs, data, settings, present, file_name, file, inst, logger>>

\* delete, lines 366-375: the dependency scan; a finding raises
DeleteScan ==
    /\ calls.del.pc = "found"
    /\ calls' = [Overlap(calls.add) EXCEPT !.del =
                    IF IsUsedElsewhere(objs, data, calls.del.item_id,
                                       RepoKeyOf[calls.del.reference_type]) # {}
                    THEN [pc |-> "idle"]
                    ELSE [@ EXCEPT !.pc = "scanned"]]
    /\ UNCHANGED <<objs, data, settings, present, file_name, file, inst, logger>>

\* delete, line 378, right-hand side: the list of the elements with another id
DeleteFilter ==
    /\ calls.del.pc = "scanned"
    /\ LET key == RepoKeyOf[calls.del.reference_type]
           keep == {i \in DOMAIN data[key] :
                        UniqueCode(objs, key, data[key][i]) # calls.del.item_id}
       IN  calls' = [Overlap(calls.add) EXCEPT !.del =
                        [pc |-> "filtered", reference_type |-> calls.del.reference_type,
                         item_id |-> calls.del.item_id,
                         kept |-> KeepIndices(data[key], keep, 1),
                         left_out |-> {data[key][i] : i \in DOMAIN data[key] \ keep}]]
    /\ UNCHANGED <<objs, data, settings, present, file_name, file, inst, logger>>

\* delete, lines 378-390: the new list is stored under the key, the audit record
\* written, the event published
DeleteStore ==
    /\ calls.del.pc = "filtered"
    /\ data' = [data EXCEPT ![RepoKeyOf[calls.del.reference_type]] = calls.del.kept]
    /\ settings' = [type |-> calls.del.reference_type, action |-> "delete",
                    id |-> calls.del.item_id, payload |-> <<>>]
    /\ calls' = [Overlap(calls.add) EXCEPT !.del = [pc |-> "idle"],
                                           !.dropped = @ \cup calls.del.left_out]
    /\ UNCHANGED <<objs, present, file_name, file, inst, logger>>

NextConc ==
    \/ AddStart \/ AddConstruct \/ AddAppend
    \/ DeleteLookup \/ DeleteScan \/ DeleteFilter \/ DeleteStore

SpecConc == Init /\ [][NextConc]_vars

\* the entities held by the collections of the reference kinds
Stored == UNION {AddrsOf(data, key) : key \in ModelKeys}

\* an entity of a collection refers to an entity that delete has dropped
RemovedIsReferenced ==
    \E a \in Stored : \E b \in {objs[a].range, objs[a].category} :
        b # None /\ b \notin Stored /\ b \in calls.dropped

\* an entity that add has appended is in no collection though no delete dropped it
AppendedIsLost ==
    \E a \in calls.appended : a \notin Stored /\ a \notin calls.dropped

\* C30: with concurrent callers of add, update and delete access to the repository is
\* serialized: no interleaving of one caller's delete (lookup, dependency scan,
\* removal) with another caller's add (cache build, construction, append) yields a
\* state in which a removed entity is referenced by a newly added one, or in which an
\* appended entity is lost.
C30_NoRemovedReferenceNoLostAppend ==
    ~RemovedIsReferenced /\ ~AppendedIsLost

\* as long as no caller has taken a step while the other was inside its call, neither
\* state arises
SerializedCallsAreSafe ==
    ~calls.overlapped => ~RemovedIsReferenced /\ ~AppendedIsLost

\* each of the two states is reached by some interleaving
NeverRemovedReference == ~RemovedIsReferenced
NeverLostAppend == ~AppendedIsLost

====
